---- MODULE Spec2Model ----
(***************************************************************************)
(* Birthday data and cache engine of dwell-birthday-calendar:              *)
(* validator (utils/validators.ts), migrator (utils/migration.ts),         *)
(* storage service (utils/storage.ts), the home-tab handlers               *)
(* (handlers/slack-events.ts, handlers/slack-interactive.ts), the admin    *)
(* write (handlers/admin-update.ts) and the cache manager                  *)
(* (services/cache-manager.ts).                                            *)
(*                                                                         *)
(* Strings are sequences of character codes, so that trim, toLowerCase,    *)
(* split and parseInt are computed rather than assumed.  A JSON value is a *)
(* record whose xxxT field is the JavaScript type found under key xxx.     *)
(***************************************************************************)
EXTENDS Integers, Sequences, FiniteSets, TLC

\* ------------------------------------------------------------------------
\* Character codes
\* ------------------------------------------------------------------------
SP == 32
TAB == 9
PLUS == 43
DASH == 45
SLASH == 47

IsSpace(c) == c = SP \/ c = TAB
IsDigit(c) == c >= 48 /\ c <= 57
IsUpper(c) == c >= 65 /\ c <= 90

\* String.prototype.toLowerCase on one character code
LowerChar(c) == IF IsUpper(c) THEN c + 32 ELSE c

\* toLowerCase leaving every character as it is
toLowerCase_KeepsCase(s) == s

toLowerCase(s) == [i \in 1..Len(s) |-> LowerChar(s[i])]

\* String.prototype.trim
trim(s) ==
  LET idx == {i \in 1..Len(s) : ~IsSpace(s[i])}
  IN IF idx = {} THEN <<>>
     ELSE LET lo == CHOOSE i \in idx : \A j \in idx : i <= j
              hi == CHOOSE i \in idx : \A j \in idx : i >= j
          IN SubSeq(s, lo, hi)

\* The failed result of parseInt
NaN == [nan |-> TRUE, v |-> 0]

\* value of the digit string d (a sequence of digit codes)
RECURSIVE DigitsValue(_)
DigitsValue(d) ==
  IF d = <<>> THEN 0
  ELSE 10 * DigitsValue(SubSeq(d, 1, Len(d) - 1)) + (d[Len(d)] - 48)

\* index of the first character of s at or after i that is not white space
RECURSIVE SkipSpaces(_, _)
SkipSpaces(s, i) ==
  IF i <= Len(s) /\ IsSpace(s[i]) THEN SkipSpaces(s, i + 1) ELSE i

\* index of the first character of s at or after i that is not a digit
RECURSIVE DigitsEnd(_, _)
DigitsEnd(s, i) ==
  IF i <= Len(s) /\ IsDigit(s[i]) THEN DigitsEnd(s, i + 1) ELSE i

\* the number written by s[from..stop-1]; NaN when there is no digit
ParseValue(s, from, stop, neg) ==
  IF stop <= from THEN NaN
  ELSE [nan |-> FALSE,
        v |-> (IF neg THEN 0 - 1 ELSE 1) * DigitsValue(SubSeq(s, from, stop - 1))]

ParseDigits(s, from, neg) == ParseValue(s, from, DigitsEnd(s, from), neg)

ParseSigned(s, start) ==
  IF start <= Len(s) /\ (s[start] = PLUS \/ s[start] = DASH)
  THEN ParseDigits(s, start + 1, s[start] = DASH)
  ELSE ParseDigits(s, start, FALSE)

\* parseInt(s, 10): leading white space, an optional sign, then the longest
\* prefix of digits; NaN when there is no digit
parseInt(s) == ParseSigned(s, SkipSpaces(s, 1))

\* legacy.date.split(/[/-]/): the pieces between separators
IsDateSep(c) == c = SLASH \/ c = DASH

RECURSIVE splitDate(_)
splitDate(s) ==
  LET seps == {i \in 1..Len(s) : IsDateSep(s[i])}
  IN IF seps = {} THEN <<s>>
     ELSE LET k == CHOOSE i \in seps : \A j \in seps : i <= j
          IN <<SubSeq(s, 1, k - 1)>> \o splitDate(SubSeq(s, k + 1, Len(s)))

\* ------------------------------------------------------------------------
\* JSON values
\* ------------------------------------------------------------------------
\* An element of a birthdays/members array.  obj = FALSE is a non-object
\* (null, a number, a string).  Types: "str", "num", "absent", "other".
\* A number is month + monthF/10 with month its floor.
RawEntry(nameT, name, monthT, month, monthF, dayT, day, dayF, dateT, date, sidT, sid) ==
  [obj |-> TRUE,
   nameT |-> nameT, name |-> name,
   monthT |-> monthT, month |-> month, monthF |-> monthF,
   dayT |-> dayT, day |-> day, dayF |-> dayF,
   dateT |-> dateT, date |-> date,
   slackUserIdT |-> sidT, slackUserId |-> sid]

NullEntry ==
  [obj |-> FALSE,
   nameT |-> "absent", name |-> <<>>,
   monthT |-> "absent", month |-> 0, monthF |-> 0,
   dayT |-> "absent", day |-> 0, dayF |-> 0,
   dateT |-> "absent", date |-> <<>>,
   slackUserIdT |-> "absent", slackUserId |-> <<>>]

\* {name, month, day} and {name, month, day, slackUserId}
Cur(name, m, d) ==
  RawEntry("str", name, "num", m, 0, "num", d, 0, "absent", <<>>, "absent", <<>>)
CurId(name, m, d, sid) ==
  RawEntry("str", name, "num", m, 0, "num", d, 0, "absent", <<>>, "str", sid)
\* {name, month: m + mf/10, day: d + df/10}
CurFrac(name, m, mf, d, df) ==
  RawEntry("str", name, "num", m, mf, "num", d, df, "absent", <<>>, "absent", <<>>)
\* {name, date}
Leg(name, date) ==
  RawEntry("str", name, "absent", 0, 0, "absent", 0, 0, "str", date, "absent", <<>>)

\* A payload: obj = FALSE is a non-object; birthdaysT/membersT is "arr",
\* "absent" or "other" (a truthy value that is not an array)
Payload(bT, b, mT, m) ==
  [obj |-> TRUE, birthdaysT |-> bT, birthdays |-> b, membersT |-> mT, members |-> m]
NonObjectPayload ==
  [obj |-> FALSE, birthdaysT |-> "absent", birthdays |-> <<>>,
   membersT |-> "absent", members |-> <<>>]
Birthdays(b) == Payload("arr", b, "absent", <<>>)
Members(m) == Payload("absent", <<>>, "arr", m)

\* a JavaScript number under key T/v/f is falsy exactly when it is 0
NumFalsy(v, f) == v = 0 /\ f = 0

\* ------------------------------------------------------------------------
\* Validator
\* ------------------------------------------------------------------------
MAX_NAME_LENGTH == 100
MAX_BIRTHDAYS == 1000
SLACK_ID_MIN == 8

daysInMonth == <<31, 28, 31, 30, 31, 30, 31, 31, 30, 31, 30, 31>>

isValidDate(month, day) ==
  IF month < 1 \/ month > 12 THEN FALSE
  ELSE IF day < 1 THEN FALSE
  ELSE IF month = 2 /\ day = 29 THEN TRUE
  ELSE day <= daysInMonth[month]

\* /^U[A-Z0-9]{8,}$/
SlackIdMatches(s) ==
  /\ Len(s) >= 1 + SLACK_ID_MIN
  /\ s[1] = 85
  /\ \A i \in 2..Len(s) : IsUpper(s[i]) \/ IsDigit(s[i])

Fail(msg, field) == [ok |-> FALSE, msg |-> msg, field |-> field, value |-> NullEntry]
Pass(b) == [ok |-> TRUE, msg |-> "", field |-> "", value |-> b]

\* the slackUserId checks, on the trimmed id
ValidateSlackUserId(e, name, slackUserId) ==
  IF Len(slackUserId) = 0 THEN Pass(Cur(name, e.month, e.day))
  ELSE IF ~SlackIdMatches(slackUserId)
    THEN Fail("slackUserId must be a valid Slack user ID format", "slackUserId")
  ELSE Pass(CurId(name, e.month, e.day, slackUserId))

\* the checks that follow const name = entry.name.trim()
ValidateNamed(e, name) ==
  IF Len(name) = 0 THEN Fail("Birthday name cannot be empty", "name")
  ELSE IF Len(name) > MAX_NAME_LENGTH
    THEN Fail("Birthday name cannot exceed 100 characters", "name")
  ELSE IF e.monthT # "num" \/ NumFalsy(e.month, e.monthF)
    THEN Fail("Birthday entry must have a valid month", "month")
  ELSE IF e.month < 1 \/ e.month > 12
    THEN Fail("Month must be between 1 and 12", "month")
  ELSE IF e.dayT # "num" \/ NumFalsy(e.day, e.dayF)
    THEN Fail("Birthday entry must have a valid day", "day")
  ELSE IF e.day < 1 \/ e.day > 31 THEN Fail("Day must be between 1 and 31", "day")
  ELSE IF ~isValidDate(e.month, e.day) THEN Fail("Invalid date", "day")
  ELSE IF e.slackUserIdT = "other"
    THEN Fail("slackUserId must be a string", "slackUserId")
  ELSE IF e.slackUserIdT = "str"
    THEN ValidateSlackUserId(e, name, trim(e.slackUserId))
  ELSE Pass(Cur(name, e.month, e.day))

validateBirthdayEntry(e) ==
  IF ~e.obj THEN Fail("Birthday entry must be an object", "")
  ELSE IF e.nameT # "str" \/ e.name = <<>>
    THEN Fail("Birthday entry must have a valid name", "name")
  ELSE ValidateNamed(e, trim(e.name))

NoRoster == [birthdays |-> <<>>]

DataFail(msg, field, index) ==
  [ok |-> FALSE, msg |-> msg, field |-> field, index |-> index, data |-> NoRoster]

\* validateBirthdayEntry of arr[lo..hi], in order
RECURSIVE EntryResults(_, _, _)
EntryResults(arr, lo, hi) ==
  IF lo > hi THEN <<>>
  ELSE IF lo = hi THEN <<validateBirthdayEntry(arr[lo])>>
  ELSE EntryResults(arr, lo, (lo + hi) \div 2)
       \o EntryResults(arr, ((lo + hi) \div 2) + 1, hi)

\* the birthdays pushed for res[lo..hi]
RECURSIVE EntryValues(_, _, _)
EntryValues(res, lo, hi) ==
  IF lo > hi THEN <<>>
  ELSE IF lo = hi THEN <<res[lo].value>>
  ELSE EntryValues(res, lo, (lo + hi) \div 2)
       \o EntryValues(res, ((lo + hi) \div 2) + 1, hi)

\* entry i makes the loop of validateBirthdayData throw: it is invalid, or
\* its lower-cased name is already in seenNames
Throws(res, i) ==
  \/ ~res[i].ok
  \/ \E j \in 1..(i - 1) :
       toLowerCase(res[j].value.name) = toLowerCase(res[i].value.name)

\* the error thrown at index k (0-based in the message)
ThrownAt(res, k) ==
  IF res[k].ok THEN DataFail("Duplicate name found", "name", k - 1)
  ELSE DataFail(res[k].msg, res[k].field, k - 1)

\* the array indices that the message and the field of a thrown error
\* contain: `Birthday entry ${i}: ...` and `birthdays[${i}]...`
IndicesNamed(err) == {err.index}

\* ValidatedEntries with the loop running on after a throw, so that the
\* error of the last throwing index is the one reported
ValidatedEntries_ReportsLast(res) ==
  IF /\ \A i \in 1..Len(res) : res[i].ok
     /\ Cardinality({toLowerCase(res[i].value.name) : i \in 1..Len(res)}) = Len(res)
  THEN [ok |-> TRUE, msg |-> "", field |-> "", index |-> 0,
        data |-> [birthdays |-> EntryValues(res, 1, Len(res))]]
  ELSE ThrownAt(res, CHOOSE i \in 1..Len(res) :
                       Throws(res, i) /\ \A j \in (i + 1)..Len(res) : ~Throws(res, j))

\* The loop of validateBirthdayData throws at the first index whose entry is
\* invalid or whose lower-cased name is already in seenNames.  It runs to
\* the end exactly when every entry is valid and the lower-cased names are
\* pairwise different.
ValidatedEntries(res) ==
  IF /\ \A i \in 1..Len(res) : res[i].ok
     /\ Cardinality({toLowerCase(res[i].value.name) : i \in 1..Len(res)}) = Len(res)
  THEN [ok |-> TRUE, msg |-> "", field |-> "", index |-> 0,
        data |-> [birthdays |-> EntryValues(res, 1, Len(res))]]
  ELSE ThrownAt(res, CHOOSE i \in 1..Len(res) :
                       Throws(res, i) /\ \A j \in 1..(i - 1) : ~Throws(res, j))

validateBirthdayData(p) ==
  IF ~p.obj THEN DataFail("Birthday data must be an object", "", 0)
  ELSE IF p.birthdaysT # "arr"
    THEN DataFail("Birthday data must have a birthdays array", "birthdays", 0)
  ELSE ValidatedEntries(EntryResults(p.birthdays, 1, Len(p.birthdays)))

\* validateBirthdayDataLimits: TRUE when it does not throw
validateBirthdayDataLimits(data) == Len(data.birthdays) <= MAX_BIRTHDAYS

\* JSON.parse(JSON.stringify(data)) of a BirthdayData: an object whose only
\* key is the birthdays array; undefined slackUserId is dropped
Stringify(data) == Birthdays(data.birthdays)

\* ------------------------------------------------------------------------
\* Migrator
\* ------------------------------------------------------------------------
CURRENT_SCHEMA_VERSION == 1
\* detectDataVersion's null
NullVersion == 0 - 1

\* obj.members || obj.birthdays: members when it is truthy
LegacyArrayT(p) == IF p.membersT # "absent" THEN p.membersT ELSE p.birthdaysT
LegacyArray(p) == IF p.membersT # "absent" THEN p.members ELSE p.birthdays

detectDataVersion(p) ==
  IF ~p.obj THEN NullVersion
  ELSE IF /\ p.birthdaysT = "arr"
          /\ Len(p.birthdays) > 0
          /\ p.birthdays[1].obj
          /\ p.birthdays[1].monthT = "num"
          /\ p.birthdays[1].dayT = "num"
          /\ p.birthdays[1].nameT = "str"
    THEN 1
  ELSE IF /\ (p.membersT = "arr" \/ p.birthdaysT = "arr")
          /\ LegacyArrayT(p) = "arr"
          /\ Len(LegacyArray(p)) > 0
          /\ LegacyArray(p)[1].obj
          /\ LegacyArray(p)[1].dateT = "str"
          /\ LegacyArray(p)[1].nameT = "str"
    THEN 0
  ELSE NullVersion

\* the Birthday built from the parsed month and day
MigrateMonthDay(legacy, name, month, day) ==
  IF month.nan \/ day.nan THEN Fail("Invalid date numbers", "")
  ELSE IF legacy.slackUserIdT = "str" /\ Len(trim(legacy.slackUserId)) > 0
    THEN Pass(CurId(name, month.v, day.v, trim(legacy.slackUserId)))
  ELSE Pass(Cur(name, month.v, day.v))

MigrateDateParts(legacy, dateParts) ==
  IF Len(dateParts) # 2 THEN Fail("Invalid date format", "")
  ELSE MigrateMonthDay(legacy, trim(legacy.name),
                       parseInt(dateParts[1]), parseInt(dateParts[2]))

\* migrateLegacyBirthday: ok = FALSE is a thrown ValidationError
migrateLegacyBirthday(legacy) ==
  IF legacy.nameT # "str" THEN Fail("Missing or invalid name", "")
  ELSE IF legacy.dateT # "str" THEN Fail("Missing or invalid date", "")
  ELSE MigrateDateParts(legacy, splitDate(legacy.date))

V0Result(success, data, warnings, errors) ==
  [success |-> success, data |-> data, hasData |-> success,
   warnings |-> warnings, errors |-> errors]

\* the body of the for loop of migrateFromV0, for the legacy entries
\* arr[lo..hi] in order
RECURSIVE LegacyResults(_, _, _)
LegacyResults(arr, lo, hi) ==
  IF lo > hi THEN <<>>
  ELSE IF lo = hi
  THEN << IF ~arr[lo].obj THEN Fail("Skipping invalid birthday entry", "")
          ELSE migrateLegacyBirthday(arr[lo]) >>
  ELSE LegacyResults(arr, lo, (lo + hi) \div 2)
       \o LegacyResults(arr, ((lo + hi) \div 2) + 1, hi)

\* migratedBirthdays: the migrated entries of res[lo..hi], in order
RECURSIVE KeptFrom(_, _, _)
KeptFrom(res, lo, hi) ==
  IF lo > hi THEN <<>>
  ELSE IF lo = hi THEN (IF res[lo].ok THEN <<res[lo].value>> ELSE <<>>)
  ELSE KeptFrom(res, lo, (lo + hi) \div 2)
       \o KeptFrom(res, ((lo + hi) \div 2) + 1, hi)

\* one warning per skipped legacy entry of res[lo..hi]
RECURSIVE SkippedFrom(_, _, _)
SkippedFrom(res, lo, hi) ==
  IF lo > hi THEN <<>>
  ELSE IF lo = hi
  THEN (IF res[lo].ok THEN <<>> ELSE <<[msg |-> res[lo].msg, index |-> lo - 1]>>)
  ELSE SkippedFrom(res, lo, (lo + hi) \div 2)
       \o SkippedFrom(res, ((lo + hi) \div 2) + 1, hi)

\* validateBirthdayData of the migrated entries; a throw is caught
ValidatedV0(v, warnings) ==
  IF v.ok THEN V0Result(TRUE, v.data, warnings, <<>>)
  ELSE V0Result(FALSE, NoRoster, warnings, <<"V0 migration failed">>)

\* MigrateKept returning the migrated entries without validateBirthdayData
MigrateKept_Unvalidated(migratedBirthdays, warnings) ==
  IF Len(migratedBirthdays) = 0
  THEN V0Result(FALSE, NoRoster, warnings, <<"No valid birthdays could be migrated">>)
  ELSE V0Result(TRUE, [birthdays |-> migratedBirthdays], warnings, <<>>)

\* MigrateKept without the test that something was migrated
MigrateKept_AllowsEmpty(migratedBirthdays, warnings) ==
  ValidatedV0(validateBirthdayData(Birthdays(migratedBirthdays)), warnings)

\* migrateFromV0 after its for loop
MigrateKept(migratedBirthdays, warnings) ==
  IF Len(migratedBirthdays) = 0
  THEN V0Result(FALSE, NoRoster, warnings, <<"No valid birthdays could be migrated">>)
  ELSE ValidatedV0(validateBirthdayData(Birthdays(migratedBirthdays)), warnings)

MigrateLoop(res) == MigrateKept(KeptFrom(res, 1, Len(res)), SkippedFrom(res, 1, Len(res)))

migrateFromV0(p) ==
  IF ~p.obj THEN V0Result(FALSE, NoRoster, <<>>, <<"Invalid data format">>)
  ELSE IF LegacyArrayT(p) # "arr"
    THEN V0Result(FALSE, NoRoster, <<>>, <<"No birthday array found in legacy data">>)
  ELSE MigrateLoop(LegacyResults(LegacyArray(p), 1, Len(LegacyArray(p))))

MigrationResult(success, version, data, warnings, errors) ==
  [success |-> success, originalVersion |-> version,
   targetVersion |-> CURRENT_SCHEMA_VERSION,
   migratedData |-> data, warnings |-> warnings, errors |-> errors]

VersionWarning == [msg |-> "Could not detect data version", index |-> 0 - 1]

\* data already in the latest format: validate and return
CurrentResult(version, v) ==
  IF v.ok THEN MigrationResult(TRUE, version, v.data, <<>>, <<>>)
  ELSE MigrationResult(FALSE, version, NoRoster, <<>>, <<"Migration failed">>)

\* the result built from that of migrateFromV0
LegacyResult(version, m, warnings) ==
  MigrationResult(m.success, version, m.data, warnings \o m.warnings, m.errors)

MigrateVersion(p, version) ==
  IF version = CURRENT_SCHEMA_VERSION
  THEN CurrentResult(version, validateBirthdayData(p))
  ELSE LegacyResult(version, migrateFromV0(p),
                    IF version = NullVersion THEN <<VersionWarning>> ELSE <<>>)

migrateToLatestFormat(p) == MigrateVersion(p, detectDataVersion(p))

\* ------------------------------------------------------------------------
\* Inputs
\* ------------------------------------------------------------------------
\* names and dates as character codes
Ann == <<65, 110, 110>>
AnnLower == <<97, 110, 110>>
BobPadded == <<SP, 66, 111, 98, SP>>
Cy == <<67, 121>>
\* "Ann  Bob": two spaces inside
AnnBob == <<65, 110, 110, SP, SP, 66, 111, 98>>
Dee == <<68, 101, 101>>
Date0120 == <<48, 49, SLASH, 50, 48>>
Date229 == <<50, DASH, 50, 57>>
Date1345 == <<49, 51, SLASH, 52, 53>>
DateXX == <<120, 120>>
SlackId == <<85, 49, 50, 51, 52, 53, 54, 55, 56>>
SlackIdShort == <<85, 49>>

\* the array elements that payloads are built from
EntryPool ==
  { Cur(Ann, 1, 20),
    Cur(AnnLower, 1, 15),
    Cur(BobPadded, 2, 29),
    Cur(Cy, 2, 30),
    CurFrac(Cy, 1, 9, 10, 0),
    Cur(<<SP>>, 3, 1),
    CurId(Dee, 3, 1, SlackId),
    CurId(Dee, 3, 1, SlackIdShort),
    CurId(Dee, 3, 2, <<SP>>),
    Leg(Ann, Date0120),
    Leg(BobPadded, Date229),
    Leg(Cy, Date1345),
    Leg(Dee, DateXX),
    NullEntry }

\* longest array in a payload
MaxEntries == 2

SeqsUpTo(S, n) == UNION {[1..k -> S] : k \in 0..n}

\* the array elements that the payloads given to the validator are built from
ValidatorPool ==
  { Cur(Ann, 1, 20),
    Cur(AnnLower, 1, 15),
    Cur(BobPadded, 2, 29),
    Cur(AnnBob, 4, 30),
    Cur(Cy, 2, 30),
    CurFrac(Cy, 1, 9, 10, 0),
    Cur(<<SP>>, 3, 1),
    CurId(Dee, 3, 1, SlackIdShort),
    NullEntry }

\* longest array in a payload given to the validator
MaxRoster == 3

ValidatorPayloads ==
  {Birthdays(b) : b \in SeqsUpTo(ValidatorPool, MaxRoster)}
  \cup {NonObjectPayload,
        Payload("absent", <<>>, "absent", <<>>),
        Payload("other", <<>>, "absent", <<>>)}

RawPayloads ==
  {Birthdays(b) : b \in SeqsUpTo(EntryPool, MaxEntries)}
  \cup {Members(m) : m \in SeqsUpTo(EntryPool, MaxEntries)}
  \cup {NonObjectPayload,
        Payload("absent", <<>>, "absent", <<>>),
        Payload("other", <<>>, "absent", <<>>),
        Payload("arr", <<Leg(Ann, Date0120)>>, "other", <<>>)}

\* ------------------------------------------------------------------------
\* Dates (utils/dates.ts).  A Date is [days, ms]: the whole days since
\* 1970-01-01T00:00:00Z and the milliseconds into the day, so that its
\* getTime() is days * MILLISECONDS_PER_DAY + ms.  The Workers runtime keeps
\* local time in UTC.
\* ------------------------------------------------------------------------
MILLISECONDS_PER_DAY == 86400000
FEBRUARY_MONTH == 2
FEBRUARY_LEAP_DAY == 29
FEBRUARY_FALLBACK_DAY == 28

isLeapYear(year) == (year % 4 = 0 /\ year % 100 # 0) \/ (year % 400 = 0)

\* days from 1970-01-01 to the first day of year y in the calendar of Date
DaysBeforeYear(y) ==
  365 * (y - 1970) + ((y - 1) \div 4 - (y - 1) \div 100 + (y - 1) \div 400) - 477

\* days from the first day of year y to the first day of its month m
CumulativeDays == <<0, 31, 59, 90, 120, 151, 181, 212, 243, 273, 304, 334>>
\* the days of year y beyond 365
LeapDays(y) == DaysBeforeYear(y + 1) - DaysBeforeYear(y) - 365
MonthStart(m, leap) == CumulativeDays[m] + (IF m > 2 THEN leap ELSE 0)
DaysBeforeMonth(y, m) == MonthStart(m, LeapDays(y))

\* new Date(y, m - 1, d): midnight; a day past the end of the month runs on
\* into the next month
DateOf(y, m, d) ==
  [days |-> DaysBeforeYear(y) + DaysBeforeMonth(y, m) + (d - 1), ms |-> 0]

\* getFullYear(), getMonth() + 1 and getDate() of the Date t
getFullYear(t) ==
  CHOOSE y \in (1970 + t.days \div 366)..(1970 + t.days \div 365) :
    DaysBeforeYear(y) <= t.days /\ t.days < DaysBeforeYear(y + 1)
MonthStarting(leap, dayOfYear) ==
  CHOOSE m \in 1..12 :
    /\ MonthStart(m, leap) <= dayOfYear
    /\ m = 12 \/ dayOfYear < MonthStart(m + 1, leap)
MonthIn(y, dayOfYear) == MonthStarting(LeapDays(y), dayOfYear)
MonthOf(t, y) == MonthIn(y, t.days - DaysBeforeYear(y))
getMonth(t) == MonthOf(t, getFullYear(t))
DayOf(t, y, m) == t.days - DateOf(y, m, 1).days + 1
DayIn(t, y) == DayOf(t, y, MonthOf(t, y))
getDate(t) == DayIn(t, getFullYear(t))

\* Math.ceil((a.getTime() - b.getTime()) / MILLISECONDS_PER_DAY)
CeilDays(a, b) ==
  (a.days - b.days) + (0 - ((0 - (a.ms - b.ms)) \div MILLISECONDS_PER_DAY))

\* the birthday in year y as new Date(y, month - 1, day), February 29 included
BirthdayIn_NoFallback(month, day, y) == DateOf(y, month, day)

\* the Date of the birthday in year y, with February 29 moved to February 28
\* when y is not a leap year
BirthdayIn(month, day, y) ==
  IF month = FEBRUARY_MONTH /\ day = FEBRUARY_LEAP_DAY /\ ~isLeapYear(y)
  THEN DateOf(y, 2, FEBRUARY_FALLBACK_DAY)
  ELSE DateOf(y, month, day)

\* getDaysUntilBirthday from today, a midnight of year y
DaysFrom(month, day, today, y) ==
  IF BirthdayIn(month, day, y).days < today.days
  THEN CeilDays(BirthdayIn(month, day, y + 1), today)
  ELSE CeilDays(BirthdayIn(month, day, y), today)

getDaysUntilBirthday(month, day, fromDate) ==
  DaysFrom(month, day,
           DateOf(getFullYear(fromDate), getMonth(fromDate), getDate(fromDate)),
           getFullYear(fromDate))

\* MONTH_NAMES, as character codes
MONTH_NAMES ==
  << <<74, 97, 110, 117, 97, 114, 121>>,
     <<70, 101, 98, 114, 117, 97, 114, 121>>,
     <<77, 97, 114, 99, 104>>,
     <<65, 112, 114, 105, 108>>,
     <<77, 97, 121>>,
     <<74, 117, 110, 101>>,
     <<74, 117, 108, 121>>,
     <<65, 117, 103, 117, 115, 116>>,
     <<83, 101, 112, 116, 101, 109, 98, 101, 114>>,
     <<79, 99, 116, 111, 98, 101, 114>>,
     <<78, 111, 118, 101, 109, 98, 101, 114>>,
     <<68, 101, 99, 101, 109, 98, 101, 114>> >>
\* 'Unknown'
UnknownMonth == <<85, 110, 107, 110, 111, 119, 110>>

\* `${n}` for an integer n >= 0
RECURSIVE NumberToString(_)
NumberToString(n) ==
  IF n < 10 THEN <<48 + n>>
  ELSE NumberToString(n \div 10) \o <<48 + (n % 10)>>

getMonthName(month) ==
  IF month \in 1..Len(MONTH_NAMES) THEN MONTH_NAMES[month] ELSE UnknownMonth

formatBirthdayDate(month, day) ==
  getMonthName(month) \o <<SP>> \o NumberToString(day)

\* {...birthday, daysUntil, monthName, displayDate}
UpcomingBirthday(b, daysUntil) ==
  [name |-> b.name, month |-> b.month, day |-> b.day,
   slackUserIdT |-> b.slackUserIdT, slackUserId |-> b.slackUserId,
   daysUntil |-> daysUntil,
   monthName |-> getMonthName(b.month),
   displayDate |-> formatBirthdayDate(b.month, b.day)]

\* the filter of getTodaysBirthdays comparing month and day only
IsToday_NoFallback(b, month, day, year) == b.month = month /\ b.day = day

\* the filter of getTodaysBirthdays, on the month, the day and the year of date
IsToday(b, month, day, year) ==
  IF b.month = FEBRUARY_MONTH /\ b.day = FEBRUARY_LEAP_DAY /\ ~isLeapYear(year)
  THEN month = FEBRUARY_MONTH /\ day = FEBRUARY_FALLBACK_DAY
  ELSE b.month = month /\ b.day = day

TodaysOf(kept) == [i \in 1..Len(kept) |-> UpcomingBirthday(kept[i], 0)]

\* the filter and the map of getTodaysBirthdays
TodaysIn(birthdays, month, day, year) ==
  TodaysOf(SelectSeq(birthdays, LAMBDA b : IsToday(b, month, day, year)))

getTodaysBirthdays(birthdays, date) ==
  TodaysIn(birthdays, getMonth(date), getDate(date), getFullYear(date))

\* a.localeCompare(b) for names of letters, digits and spaces: the first
\* position where the names differ apart from case decides (space, then
\* digits, then letters; a proper prefix comes first); names equal apart from
\* case are ordered by the first position where the case differs, lower case
\* first
FirstWhere(a, b, Differ(_, _)) ==
  IF \E i \in 1..Len(a) : i <= Len(b) /\ Differ(a[i], b[i])
  THEN CHOOSE i \in 1..Len(a) :
         /\ i <= Len(b) /\ Differ(a[i], b[i])
         /\ \A j \in 1..(i - 1) : ~Differ(a[j], b[j])
  ELSE 0

CompareAt(a, b, i, Key(_)) ==
  IF i = 0 THEN (IF Len(a) < Len(b) THEN 0 - 1 ELSE IF Len(a) > Len(b) THEN 1 ELSE 0)
  ELSE IF Key(a[i]) < Key(b[i]) THEN 0 - 1 ELSE 1

\* lower case before upper case
CaseKey(c) == IF IsUpper(c) THEN 1 ELSE 0

ComparePrimary(a, b) ==
  CompareAt(a, b, FirstWhere(a, b, LAMBDA x, y : LowerChar(x) # LowerChar(y)), LowerChar)

CompareCase(a, b) ==
  CompareAt(a, b, FirstWhere(a, b, LAMBDA x, y : x # y), CaseKey)

localeCompare(a, b) ==
  IF ComparePrimary(a, b) # 0 THEN ComparePrimary(a, b) ELSE CompareCase(a, b)

\* the comparator of calculateUpcomingBirthdays without its name ordering
CompareUpcoming_DaysOnly(a, b) == a.daysUntil - b.daysUntil

\* the comparator of calculateUpcomingBirthdays
CompareUpcoming(a, b) ==
  IF a.daysUntil # b.daysUntil THEN a.daysUntil - b.daysUntil
  ELSE localeCompare(a.name, b.name)

\* Array.prototype.sort(cmp), a stable sort: the place of s[i] is one more
\* than the number of elements that go before it
Place(s, i, cmp(_, _)) ==
  1 + Cardinality({j \in 1..Len(s) :
                     cmp(s[j], s[i]) < 0 \/ (cmp(s[j], s[i]) = 0 /\ j < i)})

Placed(s, places) == [k \in 1..Len(s) |-> s[CHOOSE i \in 1..Len(s) : places[i] = k]]

sort(s, cmp(_, _)) == Placed(s, [i \in 1..Len(s) |-> Place(s, i, cmp)])

\* the entries pushed by the loop of calculateUpcomingBirthdays
UpcomingOf(birthdays, until) ==
  [i \in 1..Len(birthdays) |-> UpcomingBirthday(birthdays[i], until[i])]

\* calculateUpcomingBirthdays with daysUntil < days as its filter
calculateUpcomingBirthdays_Exclusive(birthdays, days, today) ==
  sort(SelectSeq(UpcomingOf(birthdays,
                            [i \in 1..Len(birthdays) |->
                               getDaysUntilBirthday(birthdays[i].month,
                                                    birthdays[i].day, today)]),
                 LAMBDA u : u.daysUntil < days),
       CompareUpcoming)

\* calculateUpcomingBirthdays(birthdays, days), with today its new Date()
calculateUpcomingBirthdays(birthdays, days, today) ==
  sort(SelectSeq(UpcomingOf(birthdays,
                            [i \in 1..Len(birthdays) |->
                               getDaysUntilBirthday(birthdays[i].month,
                                                    birthdays[i].day, today)]),
                 LAMBDA u : u.daysUntil <= days),
       CompareUpcoming)

\* ------------------------------------------------------------------------
\* Home views
\* ------------------------------------------------------------------------
\* storeCachedHomeView(homeView, 3600)
HOME_VIEW_TTL_SECONDS == 3600

\* A view is recorded by what determines its blocks: the document kind, the
\* birthdays, the expanded flag and the calendar day of new Date(); an error
\* view by the message in its "Error details" block.
View(kind, birthdays, expanded, day, error) ==
  [kind |-> kind, birthdays |-> birthdays, expanded |-> expanded,
   day |-> day, error |-> error]
NoView == View("none", <<>>, FALSE, 0, <<>>)

generateWelcomeView == View("welcome", <<>>, FALSE, 0, <<>>)

generateHomeView(birthdays, expanded, t) ==
  IF Len(birthdays) = 0 THEN generateWelcomeView
  ELSE View("home", birthdays, expanded, t \div MILLISECONDS_PER_DAY, <<>>)

generateErrorView(error) == View("error", <<>>, FALSE, 0, error)

\* ------------------------------------------------------------------------
\* The blocks of the home view (services/home-view-generator.ts).  A block is
\* its type, the fixed wording of its text and the values placed in it.
\* ------------------------------------------------------------------------
BIRTHDAY_STATS_DAYS == 30
DAYS_PER_WEEK == 7
WEEKS_FOR_RELATIVE_DISPLAY == 2
DAYS_FOR_WEEKS_DISPLAY == 60
DAYS_PER_MONTH_APPROX == 30

\* Math.ceil(a / b) for a >= 0 and b > 0
CeilDiv(a, b) == (a + b - 1) \div b

formatRelativeDate(daysUntil) ==
  IF daysUntil = 0 THEN [text |-> "today", n |-> 0]
  ELSE IF daysUntil = 1 THEN [text |-> "tomorrow", n |-> 0]
  ELSE IF daysUntil <= DAYS_PER_WEEK THEN [text |-> "in n days", n |-> daysUntil]
  ELSE IF daysUntil <= WEEKS_FOR_RELATIVE_DISPLAY * DAYS_PER_WEEK
    THEN [text |-> "in n weeks", n |-> CeilDiv(daysUntil, DAYS_PER_WEEK)]
  ELSE IF daysUntil <= DAYS_FOR_WEEKS_DISPLAY
    THEN [text |-> "in n weeks", n |-> CeilDiv(daysUntil, DAYS_PER_WEEK)]
  ELSE [text |-> "in n months", n |-> CeilDiv(daysUntil, DAYS_PER_MONTH_APPROX)]

Block(type, text, data) == [type |-> type, text |-> text, data |-> data]
Divider == Block("divider", "", <<>>)
HeaderBlock == Block("header", "Dwell Church Birthdays", <<>>)

\* birthday.slackUserId ? `<@${birthday.slackUserId}>` : `**${birthday.name}**`
NameText(b) ==
  IF b.slackUserIdT = "str" /\ b.slackUserId # <<>>
  THEN [mention |-> TRUE, text |-> b.slackUserId]
  ELSE [mention |-> FALSE, text |-> b.name]

WelcomeBlocks ==
  <<HeaderBlock,
    Block("section", "Welcome to Dwell Church Birthdays!", <<>>),
    Block("section", "Getting Started", <<>>),
    Divider,
    Block("context", "Tip: Use /birthdays", <<>>)>>

generateTodaysBirthdaysSection(todaysBirthdays) ==
  <<Block("section", "Today's Birthday", [plural |-> Len(todaysBirthdays) > 1])>>
  \o [i \in 1..Len(todaysBirthdays) |->
        Block("section", "is celebrating today", NameText(todaysBirthdays[i]))]
  \o <<Divider>>

\* `${birthday.daysUntil}`
GroupKey_DaysOnly(b) == NumberToString(b.daysUntil)

\* `${birthday.daysUntil}-${birthday.displayDate}`
GroupKey(b) == NumberToString(b.daysUntil) \o <<DASH>> \o b.displayDate

\* the members of the finite set S of integers, ascending
Ascending(S) ==
  [k \in 1..Cardinality(S) |->
     CHOOSE i \in S : Cardinality({j \in S : j < i}) = k - 1]

\* the positions where a key appears for the first time
FirstKeys(keys) ==
  Ascending({i \in 1..Len(keys) : \A j \in 1..(i - 1) : keys[j] # keys[i]})

\* Object.entries(birthdayGroups): the keys in the order of their insertion,
\* each with the birthdays pushed under it
GroupEntries(future, keys, firsts) ==
  [k \in 1..Len(firsts) |->
     [key |-> keys[firsts[k]],
      group |-> SelectSeq(future, LAMBDA b : GroupKey(b) = keys[firsts[k]])]]

birthdayGroups(future) ==
  GroupEntries(future, [i \in 1..Len(future) |-> GroupKey(future[i])],
               FirstKeys([i \in 1..Len(future) |-> GroupKey(future[i])]))

\* key.split('-')[0]
SplitFirst(s, sep) ==
  IF \E i \in 1..Len(s) : s[i] = sep
  THEN SubSeq(s, 1, (CHOOSE i \in 1..Len(s) :
                       s[i] = sep /\ \A j \in 1..(i - 1) : s[j] # sep) - 1)
  ELSE s

\* aDays - bDays, which is NaN when a key has no leading number; sort takes a
\* NaN for 0
DaysDifference(aDays, bDays) ==
  IF aDays.nan \/ bDays.nan THEN 0 ELSE aDays.v - bDays.v

CompareGroups(a, b) ==
  DaysDifference(parseInt(SplitFirst(a.key, DASH)), parseInt(SplitFirst(b.key, DASH)))

\* Array.prototype.slice(0, n)
slice(s, n) == SubSeq(s, 1, IF n < Len(s) THEN n ELSE Len(s))

\* expanded ? 20 : 10
MaxGroups(expanded) == IF expanded THEN 20 ELSE 10

sortedGroups(future, expanded) ==
  slice(sort(birthdayGroups(future), CompareGroups), MaxGroups(expanded))

Emoji(daysUntil) ==
  IF daysUntil = 1 THEN "gift" ELSE IF daysUntil <= 7 THEN "date" ELSE "tada"

GroupBlock(group) ==
  Block("section", "group",
        [emoji |-> Emoji(group[1].daysUntil),
         displayDate |-> group[1].displayDate,
         relativeDate |-> formatRelativeDate(group[1].daysUntil),
         names |-> [i \in 1..Len(group) |-> NameText(group[i])]])

UpcomingHeader(future, expanded) ==
  Block("section", "Upcoming Birthdays",
        [days |-> IF expanded THEN future[Len(future)].daysUntil ELSE 30])

\* the '... and N more' block, for the future birthdays and the groups shown
MoreBlocks(future, groups) ==
  IF Len(future) > Len(groups)
  THEN <<Block("context", "... and n more", [n |-> Len(future) - Len(groups)])>>
  ELSE <<>>

FutureSection(future, groups, expanded) ==
  IF Len(future) = 0 THEN <<>>
  ELSE <<UpcomingHeader(future, expanded)>>
       \o [k \in 1..Len(groups) |-> GroupBlock(groups[k].group)]
       \o MoreBlocks(future, groups)
       \o <<Divider>>

FutureSectionOf(future, expanded) ==
  FutureSection(future, sortedGroups(future, expanded), expanded)

generateUpcomingBirthdaysSection(upcomingBirthdays, expanded) ==
  FutureSectionOf(SelectSeq(upcomingBirthdays, LAMBDA b : b.daysUntil > 0), expanded)

generateNoUpcomingBirthdaysSection ==
  <<Block("section", "No Upcoming Birthdays", <<>>), Divider>>

\* getBirthdayStats, the four numbers shown
InMonth(birthdays, month) == Len(SelectSeq(birthdays, LAMBDA b : b.month = month))

StatsOf(birthdays, currentMonth, date) ==
  [totalBirthdays |-> Len(birthdays),
   birthdaysThisMonth |-> InMonth(birthdays, currentMonth),
   birthdaysNextMonth |-> InMonth(birthdays, IF currentMonth = 12 THEN 1 ELSE currentMonth + 1),
   birthdaysNext30Days |-> Len(calculateUpcomingBirthdays(birthdays, BIRTHDAY_STATS_DAYS, date))]

getBirthdayStats(birthdays, date) == StatsOf(birthdays, getMonth(date), date)

generateStatsSection(stats) ==
  <<Block("section", "Birthday Statistics", <<>>),
    Block("section", "stats", stats),
    Divider>>

generateActionButtons(expanded) ==
  <<Block("actions", "buttons",
          <<IF expanded THEN "show_compact_view" ELSE "show_expanded_view",
            "refresh_home_view">>),
    Block("context", "Use /birthdays", <<>>)>>

\* 90 days whether expanded or not
UpcomingDays_Always90(expanded) == 90

\* expanded ? 90 : 30
UpcomingDays(expanded) == IF expanded THEN 90 ELSE 30

TodaysPart(todaysBirthdays) ==
  IF Len(todaysBirthdays) > 0 THEN generateTodaysBirthdaysSection(todaysBirthdays)
  ELSE <<>>

\* generateUpcomingBirthdaysSection whenever the roster is not empty
UpcomingPart_Always(upcomingBirthdays, expanded) ==
  generateUpcomingBirthdaysSection(upcomingBirthdays, expanded)

UpcomingPart(upcomingBirthdays, expanded) ==
  IF Len(upcomingBirthdays) > 0
  THEN generateUpcomingBirthdaysSection(upcomingBirthdays, expanded)
  ELSE generateNoUpcomingBirthdaysSection

HomeBlocks(birthdays, expanded, date) ==
  <<HeaderBlock>>
  \o TodaysPart(getTodaysBirthdays(birthdays, date))
  \o UpcomingPart(calculateUpcomingBirthdays(birthdays, UpcomingDays(expanded), date),
                  expanded)
  \o generateStatsSection(getBirthdayStats(birthdays, date))
  \o generateActionButtons(expanded)

\* generateHomeView(birthdays, expanded) with date its new Date(): the home
\* view block by block
HomeView(birthdays, expanded, date) ==
  IF Len(birthdays) = 0 THEN [type |-> "home", blocks |-> WelcomeBlocks]
  ELSE [type |-> "home", blocks |-> HomeBlocks(birthdays, expanded, date)]

\* ------------------------------------------------------------------------
\* State
\* ------------------------------------------------------------------------
VARIABLES
  kvRoster,         \* key birthdays:data: [present, value]
  kvCache,          \* key cache:home_view: [present, data, timestamp, expiresAt]
  kvInstallations,  \* key installations: the team ids of the stored map
  now,              \* Date.now()
  ticks,            \* clock advances so far
  faults,           \* storage / Slack API calls that have thrown so far
  writes,           \* admin updates started so far
  admin,            \* AdminUpdateHandler.handle in flight
  client,           \* a home-tab request in flight
  warm,             \* warmCacheForAllInstallations in flight
  wBase,            \* what the cache slot holds apart from the warm-up's own puts
  writeDone,        \* some storeBirthdayData has returned successfully
  postWrite,        \* the rosters stored since the last admin put
  mInput,           \* migrateToLatestFormat: argument
  mResult,          \* migrateToLatestFormat: result
  mAgain,           \* migrateToLatestFormat of mResult.migratedData
  mStage,           \* number of migrations applied so far
  vInput,           \* validateBirthdayData: argument
  vResult,          \* validateBirthdayData: the roster returned or the error thrown
  vDone,            \* validateBirthdayData has run
  hDate,            \* new Date(), the reference date of the date functions
  hBirthdays,       \* the roster given to the date functions and the generator
  hExpanded,        \* generateHomeView: the expanded flag
  hDays,            \* calculateUpcomingBirthdays: the days argument
  dUntil,           \* getDaysUntilBirthday of every calendar day from hDate
  hTodays,          \* getTodaysBirthdays(hBirthdays, hDate)
  hUpcoming,        \* calculateUpcomingBirthdays(hBirthdays, hDays)
  hView,            \* generateHomeView(hBirthdays, hExpanded)
  sched,            \* a scheduled task under withScheduledErrorHandling
  event,            \* handleScheduledEvent in progress
  refresh,          \* the calls of refreshAllCaches, one per attempt
  install           \* storeInstallation in progress, per team

vars == <<kvRoster, kvCache, kvInstallations, now, ticks, faults, writes,
          admin, client, warm, wBase, writeDone, postWrite,
          mInput, mResult, mAgain, mStage, vInput, vResult, vDone,
          hDate, hBirthdays, hExpanded, hDays, dUntil, hTodays, hUpcoming,
          hView, sched, event, refresh, install>>
sysVars == <<kvRoster, kvCache, kvInstallations, now, ticks, faults, writes,
             admin, client, warm, wBase, writeDone, postWrite>>
pureVars == <<mInput, mResult, mAgain, mStage, vInput, vResult, vDone,
              hDate, hBirthdays, hExpanded, hDays, dUntil, hTodays, hUpcoming,
              hView, sched, event, refresh, install>>
migrateVars == <<mInput, mResult, mAgain, mStage>>
validateVars == <<vInput, vResult, vDone>>
dateVars == <<hDate, hBirthdays, hExpanded, hDays, dUntil, hTodays, hUpcoming, hView>>
schedVars == <<sched, event, refresh>>
installVars == <<install>>

\* bounds of the exploration
MaxTicks == 2
MaxFaults == 1
MaxWrites == 1
NumTeams == 2
MaxInFlight == 2

Teams == 1..NumTeams

NoData == [present |-> FALSE, value |-> NonObjectPayload]
Stored(p) == [present |-> TRUE, value |-> p]

EmptySlot == [present |-> FALSE, data |-> NoView, timestamp |-> 0, expiresAt |-> 0]

\* the entry storeCachedHomeView puts at time t
CacheEntry(data, t, expirationSeconds) ==
  [present |-> TRUE, data |-> data, timestamp |-> t,
   expiresAt |-> t + expirationSeconds * 1000]

\* getCachedHomeView with Date.now() >= cacheEntry.expiresAt as the expiry test
getCachedHomeView_ExpiresEarly(slot, t, failed) ==
  IF failed THEN NoView
  ELSE IF ~slot.present THEN NoView
  ELSE IF t >= slot.expiresAt THEN NoView
  ELSE slot.data

\* getCachedHomeView: NoView is null; failed is kv.get throwing
getCachedHomeView(slot, t, failed) ==
  IF failed THEN NoView
  ELSE IF ~slot.present THEN NoView
  ELSE IF t > slot.expiresAt THEN NoView
  ELSE slot.data

\* the team whose members open the home tab
ClientTeam == 1

\* requests and scheduled tasks in flight
InFlight ==
  (IF admin.pc # "idle" THEN 1 ELSE 0) + (IF client.pc # "idle" THEN 1 ELSE 0)
  + (IF warm.pc # "idle" THEN 1 ELSE 0)

\* a function that has not been called, and its result r
NotCalled == [done |-> FALSE, value |-> <<>>]
Returned(r) == [done |-> TRUE, value |-> r]

Epoch == [days |-> 0, ms |-> 0]

\* no date function and no generator has been called
DatesIdle ==
  /\ hDate = Epoch
  /\ hBirthdays = <<>>
  /\ hExpanded = FALSE
  /\ hDays = 0
  /\ dUntil = NotCalled
  /\ hTodays = NotCalled
  /\ hUpcoming = NotCalled
  /\ hView = NotCalled

\* storeInstallation(teamId, installation) in progress: pc is "idle", "get"
\* (getInstallations is awaited), "put" (kv.put is awaited), "stored" or
\* "failed"; installations are the keys of the map getInstallations returned
NoInstall == [pc |-> "idle", installations |-> {}]
InstallIdle == install = [t \in Teams |-> NoInstall]

\* ------------------------------------------------------------------------
\* Scheduled tasks (middleware/scheduled-error-handler.ts, handlers/scheduled.ts)
\* ------------------------------------------------------------------------
RetryConfig(maxRetries, baseDelay, maxDelay, backoffFactor) ==
  [maxRetries |-> maxRetries, baseDelay |-> baseDelay, maxDelay |-> maxDelay,
   backoffFactor |-> backoffFactor]

DEFAULT_RETRY_CONFIG == RetryConfig(3, 1000, 30000, 2)
\* the retryConfig handleHealthCheck passes
HealthCheckConfig == RetryConfig(1, 1000, 5000, 2)
\* a retryConfig whose third wait reaches maxDelay
CappedConfig == RetryConfig(3, 1000, 3000, 2)

\* a task: the timeoutMs of the withTimeout inside it and the retryConfig
\* given to withScheduledErrorHandling
ScheduledTask(taskName, timeoutMs, config) ==
  [taskName |-> taskName, timeoutMs |-> timeoutMs, config |-> config]

\* the four tasks of handleScheduledEvent, and a task retried under
\* CappedConfig
ScheduledTasks ==
  { ScheduledTask("daily-cache-refresh", 600000, DEFAULT_RETRY_CONFIG),
    ScheduledTask("cache-warming", 300000, DEFAULT_RETRY_CONFIG),
    ScheduledTask("monthly-maintenance", 600000, DEFAULT_RETRY_CONFIG),
    ScheduledTask("health-check", 30000, HealthCheckConfig),
    ScheduledTask("capped", 30000, CappedConfig) }

\* Math.pow(b, e) for an integer e >= 0
RECURSIVE Pow(_, _)
Pow(b, e) == IF e = 0 THEN 1 ELSE b * Pow(b, e - 1)

\* attempt <= retryConfig.maxRetries + 1 as the condition of the loop
LoopContinues_OneMore(attempt, config) == attempt <= config.maxRetries + 1

\* the condition of the for loop
LoopContinues(attempt, config) == attempt <= config.maxRetries

\* a wait after every failed attempt
WaitsBeforeRetry_Always(attempt, config) == TRUE

\* if (attempt < retryConfig.maxRetries)
WaitsBeforeRetry(attempt, config) == attempt < config.maxRetries

\* the delay without Math.min
Delay_Uncapped(attempt, config) ==
  config.baseDelay * Pow(config.backoffFactor, attempt)

\* Math.min(baseDelay * Math.pow(backoffFactor, attempt), maxDelay)
Delay(attempt, config) ==
  IF config.baseDelay * Pow(config.backoffFactor, attempt) < config.maxDelay
  THEN config.baseDelay * Pow(config.backoffFactor, attempt)
  ELSE config.maxDelay

\* withScheduledErrorHandling in progress: pc is "idle", "attempt" (task() is
\* awaited), "wait" (the setTimeout of the retry is awaited), "returned" or
\* "raised" (ScheduledTaskError thrown); runs and failed count the calls of
\* task() and those that threw; waits are the delays awaited; elapsed is the
\* time since the invocation began
Scheduled(pc, task, attempt, runs, failed, waits, elapsed) ==
  [pc |-> pc, task |-> task, attempt |-> attempt, runs |-> runs,
   failed |-> failed, waits |-> waits, elapsed |-> elapsed]

\* no scheduled task is running
NotScheduled ==
  Scheduled("idle", ScheduledTask("", 0, DEFAULT_RETRY_CONFIG), 0, 0, 0, <<>>, 0)

\* the cron expressions of wrangler's triggers, and one that is not routed
DailyCron == "0 8 * * *"
WarmingCron == "0 9-17 * * 1-5"
MonthlyCron == "0 0 1 * *"
HealthCron == "*/5 * * * *"
UnknownCron == "0 0 * * 0"
Crons == {DailyCron, WarmingCron, MonthlyCron, HealthCron, UnknownCron}

\* the switch of handleScheduledEvent: the task a cron is routed to; the
\* default case has none
Routed(cron) == cron \in {DailyCron, WarmingCron, MonthlyCron, HealthCron}
TaskOf(cron) ==
  CASE cron = DailyCron ->
         ScheduledTask("daily-cache-refresh", 600000, DEFAULT_RETRY_CONFIG)
    [] cron = WarmingCron ->
         ScheduledTask("cache-warming", 300000, DEFAULT_RETRY_CONFIG)
    [] cron = MonthlyCron ->
         ScheduledTask("monthly-maintenance", 600000, DEFAULT_RETRY_CONFIG)
    [] OTHER -> ScheduledTask("health-check", 30000, HealthCheckConfig)

\* handleScheduledEvent: pc is "idle", "task" (the handler of the cron is
\* awaited), "resolved" or "rejected"; completed and failed are the
\* 'Scheduled event completed' and 'Scheduled event failed' log lines
ScheduledEvent(pc, cron, completed, failed) ==
  [pc |-> pc, cron |-> cron, completed |-> completed, failed |-> failed]
NoEvent == ScheduledEvent("idle", "", FALSE, FALSE)

\* the end of handleScheduledEvent with the catch block throwing the error on
EventEnds_Rethrows(cron, threw) ==
  IF threw THEN ScheduledEvent("rejected", cron, FALSE, TRUE)
  ELSE ScheduledEvent("resolved", cron, TRUE, FALSE)

\* the end of handleScheduledEvent: the try block ran through, or the catch
\* block logged the error and did not throw it on
EventEnds(cron, threw) ==
  IF threw THEN ScheduledEvent("resolved", cron, FALSE, TRUE)
  ELSE ScheduledEvent("resolved", cron, TRUE, FALSE)

SchedIdle == sched = NotScheduled /\ event = NoEvent /\ refresh = <<>>

\* the next iteration of the loop, or the throw after it
NextIteration(s, attempt, elapsed) ==
  IF LoopContinues(attempt, s.task.config)
  THEN Scheduled("attempt", s.task, attempt, s.runs, s.failed, s.waits, elapsed)
  ELSE Scheduled("raised", s.task, attempt, s.runs, s.failed, s.waits, elapsed)

\* the catch block, entered d ms after the attempt began
Caught(s, d) ==
  IF WaitsBeforeRetry(s.attempt, s.task.config)
  THEN Scheduled("wait", s.task, s.attempt, s.runs + 1, s.failed + 1,
                 Append(s.waits, Delay(s.attempt, s.task.config)), s.elapsed + d)
  ELSE NextIteration(Scheduled("attempt", s.task, s.attempt, s.runs + 1,
                               s.failed + 1, s.waits, s.elapsed + d),
                     s.attempt + 1, s.elapsed + d)

\* a storage or Slack call throws
Fault == faults < MaxFaults /\ faults' = faults + 1
NoFault == faults' = faults

\* a cache put/delete by a request that is not the warm-up
SetCache(slot) == kvCache' = slot /\ wBase' = slot

\* ReadMigrated with validateBirthdayDataLimits applied to the migrated data
ReadMigrated_EnforcesLimit(r) ==
  IF ~r.success
  THEN [kind |-> "fail", data |-> NoRoster, writeBack |-> FALSE,
        err |-> <<"Data migration failed">> \o r.errors]
  ELSE IF ~validateBirthdayDataLimits(r.migratedData)
  THEN [kind |-> "fail", data |-> NoRoster, writeBack |-> FALSE,
        err |-> <<"Too many birthdays">>]
  ELSE [kind |-> "ok", data |-> r.migratedData,
        writeBack |-> /\ r.originalVersion # NullVersion
                      /\ r.originalVersion < r.targetVersion,
        err |-> <<>>]

\* getBirthdayData after migrateToLatestFormat, up to its write-back
ReadMigrated(r) ==
  IF ~r.success
  THEN [kind |-> "fail", data |-> NoRoster, writeBack |-> FALSE,
        err |-> <<"Data migration failed">> \o r.errors]
  ELSE [kind |-> "ok", data |-> r.migratedData,
        writeBack |-> /\ r.originalVersion # NullVersion
                      /\ r.originalVersion < r.targetVersion,
        err |-> <<>>]

\* getBirthdayData up to its write-back, on the value kv.get returned
ReadOutcome(slot) ==
  IF ~slot.present
  THEN [kind |-> "empty", data |-> NoRoster, writeBack |-> FALSE, err |-> <<>>]
  ELSE ReadMigrated(migrateToLatestFormat(slot.value))

\* ------------------------------------------------------------------------
\* Admin update: AdminUpdateHandler.handle -> storeBirthdayData -> clearCache
\* ------------------------------------------------------------------------
Jan20 == Cur(Ann, 1, 20)

\* BIG_COUNT distinct names: "N" followed by four digits
BigName(i) ==
  <<78, 48 + (i \div 1000), 48 + ((i \div 100) % 10),
    48 + ((i \div 10) % 10), 48 + (i % 10)>>
RECURSIVE BigEntries(_, _)
BigEntries(lo, hi) ==
  IF lo > hi THEN <<>>
  ELSE IF lo = hi THEN <<Cur(BigName(lo), 1 + (lo % 12), 1 + (lo % 28))>>
  ELSE BigEntries(lo, (lo + hi) \div 2) \o BigEntries(((lo + hi) \div 2) + 1, hi)
BigRoster == BigEntries(1, MAX_BIRTHDAYS + 1)

\* the same entries in the legacy format: {name, date: "MM/DD"}
BigLegacyDate(m, d) ==
  <<48 + (m \div 10), 48 + (m % 10), SLASH, 48 + (d \div 10), 48 + (d % 10)>>
RECURSIVE BigLegacyEntries(_, _)
BigLegacyEntries(lo, hi) ==
  IF lo > hi THEN <<>>
  ELSE IF lo = hi
  THEN <<Leg(BigName(lo), BigLegacyDate(1 + (lo % 12), 1 + (lo % 28)))>>
  ELSE BigLegacyEntries(lo, (lo + hi) \div 2)
       \o BigLegacyEntries(((lo + hi) \div 2) + 1, hi)
BigLegacyRoster == BigLegacyEntries(1, MAX_BIRTHDAYS + 1)

\* the payloads the administrator submits
AdminInput ==
  << Birthdays(<<Jan20>>),
     Birthdays(<<>>),
     Birthdays(<<Jan20, Cur(AnnLower, 1, 15)>>),
     Birthdays(BigRoster) >>

\* validateBirthdayData(birthdayData) of handle, per input
HandlerValidated ==
  << validateBirthdayData(AdminInput[1]),
     validateBirthdayData(AdminInput[2]),
     validateBirthdayData(AdminInput[3]),
     validateBirthdayData(AdminInput[4]) >>

\* validateBirthdayData(data) of storeBirthdayData, on what handle validated
StoreValidatedFor(h) ==
  IF h.ok THEN validateBirthdayData(Stringify(h.data)) ELSE h
StoreValidated ==
  << StoreValidatedFor(HandlerValidated[1]), StoreValidatedFor(HandlerValidated[2]),
     StoreValidatedFor(HandlerValidated[3]), StoreValidatedFor(HandlerValidated[4]) >>

\* before is what the roster key held when handle began
AdminIdle ==
  [pc |-> "idle", data |-> NoRoster, out |-> "none", warmBefore |-> FALSE,
   before |-> NoData]

\* handle and storeBirthdayData up to the kv.put: h is what handle validated,
\* v what storeBirthdayData validated
AdminOutcome(h, v) ==
  IF ~h.ok THEN [AdminIdle EXCEPT !.pc = "done", !.out = "validation_error"]
  ELSE IF ~v.ok THEN [AdminIdle EXCEPT !.pc = "done", !.out = "error"]
  ELSE IF ~validateBirthdayDataLimits(v.data)
  THEN [AdminIdle EXCEPT !.pc = "done", !.out = "limit_error"]
  ELSE [AdminIdle EXCEPT !.pc = "put", !.data = v.data]

\* AdminBegin with the roster put issued before validateBirthdayDataLimits
AdminBegin_PutsBeforeLimit(i) ==
  /\ admin.pc = "idle"
  /\ InFlight < MaxInFlight
  /\ writes < MaxWrites
  /\ writes' = writes + 1
  /\ admin' = [AdminOutcome(HandlerValidated[i], StoreValidated[i])
                 EXCEPT !.before = kvRoster]
  /\ kvRoster' = IF admin'.out = "limit_error"
                 THEN Stored(Stringify(StoreValidated[i].data))
                 ELSE kvRoster
  /\ UNCHANGED <<kvCache, kvInstallations, now, ticks, faults,
                 client, warm, wBase, writeDone, postWrite, pureVars>>

\* handle up to the first await of storeBirthdayData (kv.put)
AdminBegin(i) ==
  /\ admin.pc = "idle"
  /\ InFlight < MaxInFlight
  /\ writes < MaxWrites
  /\ writes' = writes + 1
  /\ admin' = [AdminOutcome(HandlerValidated[i], StoreValidated[i])
                 EXCEPT !.before = kvRoster]
  /\ UNCHANGED <<kvRoster, kvCache, kvInstallations, now, ticks, faults,
                 client, warm, wBase, writeDone, postWrite, pureVars>>

\* storeBirthdayData: kv.put(BIRTHDAY_DATA, JSON.stringify(validatedData))
AdminPut ==
  /\ admin.pc = "put"
  /\ \/ /\ NoFault
        /\ kvRoster' = Stored(Stringify(admin.data))
        /\ postWrite' = {admin.data}
        /\ admin' = [admin EXCEPT !.pc = "clear1"]
     \/ /\ Fault
        /\ admin' = [admin EXCEPT !.pc = "done", !.out = "error"]
        /\ UNCHANGED <<kvRoster, postWrite>>
  /\ UNCHANGED <<kvCache, kvInstallations, now, ticks, writes,
                 client, warm, wBase, writeDone, pureVars>>

\* AdminClearInStore without the kv.delete of the cache key
AdminClearInStore_KeepsCache ==
  /\ admin.pc = "clear1"
  /\ NoFault
  /\ writeDone' = TRUE
  /\ admin' = [admin EXCEPT !.pc = "clear2",
                 !.warmBefore = (kvCache.present /\ now < kvCache.expiresAt)]
  /\ UNCHANGED <<kvCache, wBase, kvRoster, kvInstallations, now, ticks, writes,
                 client, warm, postWrite, pureVars>>

\* storeBirthdayData: await this.clearCachedHomeView(), then return
AdminClearInStore ==
  /\ admin.pc = "clear1"
  /\ \/ /\ NoFault
        /\ SetCache(EmptySlot)
        /\ writeDone' = TRUE
        /\ admin' = [admin EXCEPT !.pc = "clear2",
                        !.warmBefore = (kvCache.present /\ now < kvCache.expiresAt)]
     \/ /\ Fault
        /\ admin' = [admin EXCEPT !.pc = "done", !.out = "error"]
        /\ UNCHANGED <<kvCache, wBase, writeDone>>
  /\ UNCHANGED <<kvRoster, kvInstallations, now, ticks, writes,
                 client, warm, postWrite, pureVars>>

\* handle: await storageService.clearCache()
AdminClearCache ==
  /\ admin.pc = "clear2"
  /\ \/ /\ NoFault
        /\ SetCache(EmptySlot)
        /\ admin' = [admin EXCEPT !.pc = "done", !.out = "ok"]
     \/ /\ Fault
        /\ admin' = [admin EXCEPT !.pc = "done", !.out = "error"]
        /\ UNCHANGED <<kvCache, wBase>>
  /\ UNCHANGED <<kvRoster, kvInstallations, now, ticks, writes,
                 client, warm, writeDone, postWrite, pureVars>>

\* the response is returned
AdminReturn ==
  /\ admin.pc = "done"
  /\ admin' = AdminIdle
  /\ UNCHANGED <<kvRoster, kvCache, kvInstallations, now, ticks, faults, writes,
                 client, warm, wBase, writeDone, postWrite, pureVars>>

\* ------------------------------------------------------------------------
\* Clock and store expiry
\* ------------------------------------------------------------------------
\* Date.now() advances by the time to live of a cached view, so that a view
\* cached at t is read at t (fresh), at its expiresAt and past it
TickStep == HOME_VIEW_TTL_SECONDS * 1000

Tick ==
  /\ ticks < MaxTicks
  /\ now' = now + TickStep
  /\ ticks' = ticks + 1
  /\ UNCHANGED <<kvRoster, kvCache, kvInstallations, faults, writes,
                 admin, client, warm, wBase, writeDone, postWrite, pureVars>>

\* Date.now() advances by half the time to live of a cached view, so that a
\* view is read while its entry has not expired
HalfTick ==
  /\ ticks < MaxTicks
  /\ now' = now + TickStep \div 2
  /\ ticks' = ticks + 1
  /\ UNCHANGED <<kvRoster, kvCache, kvInstallations, faults, writes,
                 admin, client, warm, wBase, writeDone, postWrite, pureVars>>

\* the store drops the cache key once its expirationTtl has elapsed
KVExpire ==
  /\ kvCache.present
  /\ now >= kvCache.expiresAt
  /\ kvCache' = EmptySlot
  /\ wBase' = IF wBase = kvCache THEN EmptySlot ELSE wBase
  /\ UNCHANGED <<kvRoster, kvInstallations, now, ticks, faults, writes,
                 admin, client, warm, writeDone, postWrite, pureVars>>

\* ------------------------------------------------------------------------
\* Home-tab requests: handleAppHomeOpened ("home") and the refresh_home_view
\* block action, handleBlockActions -> handleRefreshHomeView ("refresh")
\* ------------------------------------------------------------------------
ClientIdle ==
  [pc |-> "idle", kind |-> "none", team |-> 0, data |-> NoRoster, view |-> NoView,
   err |-> <<>>, pub |-> NoView, readOk |-> FALSE, rendered |-> FALSE,
   fromCache |-> FALSE, cacheReadFailed |-> FALSE, storeFailed |-> FALSE]

RequestKinds == {"home", "refresh"}

\* the block actions show_expanded_view and show_compact_view
ToggleKinds == {"expanded", "compact"}

\* the expanded argument of generateHomeView: true in handleShowExpandedView
Expands(kind) == kind = "expanded"

\* every handler caching the view it rendered
AfterRender_AlwaysStores(kind) == "store"

\* what follows generateHomeView: handleAppHomeOpened and
\* handleRefreshHomeView await storeCachedHomeView, the two toggles go
\* straight to publishHomeView
AfterRender(kind) == IF kind \in ToggleKinds THEN "publish" ELSE "store"

ClientStart(kind) ==
  /\ client.pc = "idle"
  /\ InFlight < MaxInFlight
  /\ client' = [ClientIdle EXCEPT !.pc = "install", !.kind = kind, !.team = ClientTeam]
  /\ UNCHANGED <<kvRoster, kvCache, kvInstallations, now, ticks, faults, writes,
                 admin, warm, wBase, writeDone, postWrite, pureVars>>

\* storageService.getInstallation(team): a failed read is an empty map
ClientGetInstallation ==
  /\ client.pc = "install"
  /\ \/ /\ NoFault
        /\ client' = IF client.team \notin kvInstallations
                     THEN [client EXCEPT !.pc = "done"]
                     ELSE IF client.kind = "home"
                     THEN [client EXCEPT !.pc = "cache"]
                     ELSE IF client.kind = "refresh"
                     THEN [client EXCEPT !.pc = "clear"]
                     ELSE [client EXCEPT !.pc = "read"]
     \/ /\ Fault
        /\ client' = [client EXCEPT !.pc = "done"]
  /\ UNCHANGED <<kvRoster, kvCache, kvInstallations, now, ticks, writes,
                 admin, warm, wBase, writeDone, postWrite, pureVars>>

\* handleAppHomeOpened: const cachedView = await getCachedHomeView()
ClientGetCached ==
  /\ client.pc = "cache"
  /\ \E failed \in BOOLEAN :
       /\ IF failed THEN Fault ELSE NoFault
       /\ LET cachedView == getCachedHomeView(kvCache, now, failed)
          IN client' = IF cachedView # NoView
                       THEN [client EXCEPT !.pc = "publish", !.view = cachedView,
                                           !.fromCache = TRUE]
                       ELSE [client EXCEPT !.pc = "read", !.cacheReadFailed = failed]
  /\ UNCHANGED <<kvRoster, kvCache, kvInstallations, now, ticks, writes,
                 admin, warm, wBase, writeDone, postWrite, pureVars>>

\* handleRefreshHomeView: await storageService.clearCachedHomeView()
ClientClear ==
  /\ client.pc = "clear"
  /\ \/ /\ NoFault
        /\ SetCache(EmptySlot)
        /\ client' = [client EXCEPT !.pc = "read"]
     \/ /\ Fault
        /\ client' = [client EXCEPT !.pc = "catch", !.err = <<"KV delete failed">>]
        /\ UNCHANGED <<kvCache, wBase>>
  /\ UNCHANGED <<kvRoster, kvInstallations, now, ticks, writes,
                 admin, warm, writeDone, postWrite, pureVars>>

\* ClientReadDone on a value of the roster key that the store hands over while
\* the put of an admin update is under way: entries of both rosters
ClientReadDone_Torn(outcome) ==
  IF outcome.kind = "fail"
  THEN [client EXCEPT !.pc = "catch", !.err = outcome.err]
  ELSE IF outcome.writeBack
  THEN [client EXCEPT !.pc = "writeback",
                      !.data = [birthdays |-> outcome.data.birthdays
                                              \o admin.data.birthdays]]
  ELSE [client EXCEPT !.pc = AfterRender(client.kind),
                      !.data = [birthdays |-> outcome.data.birthdays
                                              \o admin.data.birthdays],
                      !.readOk = TRUE, !.rendered = TRUE,
                      !.view = generateHomeView(outcome.data.birthdays,
                                                Expands(client.kind), now)]

\* getBirthdayData up to its write-back, then generateHomeView when there is
\* no write-back to await
ClientReadDone(outcome) ==
  IF outcome.kind = "fail"
  THEN [client EXCEPT !.pc = "catch", !.err = outcome.err]
  ELSE IF outcome.writeBack
  THEN [client EXCEPT !.pc = "writeback", !.data = outcome.data]
  ELSE [client EXCEPT !.pc = AfterRender(client.kind), !.data = outcome.data,
                      !.readOk = TRUE, !.rendered = TRUE,
                      !.view = generateHomeView(outcome.data.birthdays,
                                                Expands(client.kind), now)]

ClientRead ==
  /\ client.pc = "read"
  /\ \/ /\ NoFault
        /\ client' = ClientReadDone(ReadOutcome(kvRoster))
     \/ /\ Fault
        /\ client' = [client EXCEPT !.pc = "catch", !.err = <<"KV get failed">>]
  /\ UNCHANGED <<kvRoster, kvCache, kvInstallations, now, ticks, writes,
                 admin, warm, wBase, writeDone, postWrite, pureVars>>

\* getBirthdayData: kv.put of the migrated data, then generateHomeView
ClientWriteBack ==
  /\ client.pc = "writeback"
  /\ \/ /\ NoFault
        /\ kvRoster' = Stored(Stringify(client.data))
        /\ postWrite' = postWrite \cup {client.data}
        /\ client' = [client EXCEPT !.pc = AfterRender(client.kind),
                        !.readOk = TRUE, !.rendered = TRUE,
                        !.view = generateHomeView(client.data.birthdays,
                                                  Expands(client.kind), now)]
     \/ /\ Fault
        /\ client' = [client EXCEPT !.pc = "catch", !.err = <<"KV put failed">>]
        /\ UNCHANGED <<kvRoster, postWrite>>
  /\ UNCHANGED <<kvCache, kvInstallations, now, ticks, writes,
                 admin, warm, wBase, writeDone, pureVars>>

\* await storageService.storeCachedHomeView(homeView, 3600)
ClientStore ==
  /\ client.pc = "store"
  /\ \/ /\ NoFault
        /\ SetCache(CacheEntry(client.view, now, HOME_VIEW_TTL_SECONDS))
        /\ client' = [client EXCEPT !.pc = "publish"]
     \/ /\ Fault
        /\ client' = [client EXCEPT !.pc = "catch", !.err = <<"KV put failed">>,
                                    !.storeFailed = TRUE]
        /\ UNCHANGED <<kvCache, wBase>>
  /\ UNCHANGED <<kvRoster, kvInstallations, now, ticks, writes,
                 admin, warm, writeDone, postWrite, pureVars>>

\* await slackApi.publishHomeView(installation, user, view)
ClientPublish ==
  /\ client.pc = "publish"
  /\ \/ /\ NoFault
        /\ client' = [client EXCEPT !.pc = "done", !.pub = client.view]
     \/ /\ Fault
        /\ client' = [client EXCEPT !.pc = "catch", !.err = <<"Slack API error">>]
  /\ UNCHANGED <<kvRoster, kvCache, kvInstallations, now, ticks, writes,
                 admin, warm, wBase, writeDone, postWrite, pureVars>>

\* ClientCatch publishing an error view that leaves the message out
ClientCatch_GenericView ==
  /\ client.pc = "catch"
  /\ NoFault
  /\ client' = IF client.team \in kvInstallations
               THEN [client EXCEPT !.pc = "done", !.pub = generateErrorView(<<>>)]
               ELSE [client EXCEPT !.pc = "done"]
  /\ UNCHANGED <<kvRoster, kvCache, kvInstallations, now, ticks, writes,
                 admin, warm, wBase, writeDone, postWrite, pureVars>>

\* ClientCatch also caching the error view it publishes
ClientCatch_CachesErrorView ==
  /\ client.pc = "catch"
  /\ NoFault
  /\ client' = [client EXCEPT !.pc = "done", !.pub = generateErrorView(client.err)]
  /\ SetCache(CacheEntry(generateErrorView(client.err), now, HOME_VIEW_TTL_SECONDS))
  /\ UNCHANGED <<kvRoster, kvInstallations, now, ticks, writes,
                 admin, warm, writeDone, postWrite, pureVars>>

\* the catch block: getInstallation again, generateErrorView(error.message),
\* publishHomeView; a failure in here is logged and swallowed
ClientCatch ==
  /\ client.pc = "catch"
  /\ \/ /\ NoFault
        /\ client' = IF client.team \in kvInstallations
                     THEN [client EXCEPT !.pc = "done",
                                         !.pub = generateErrorView(client.err)]
                     ELSE [client EXCEPT !.pc = "done"]
     \/ /\ Fault
        /\ client' = [client EXCEPT !.pc = "done"]
  /\ UNCHANGED <<kvRoster, kvCache, kvInstallations, now, ticks, writes,
                 admin, warm, wBase, writeDone, postWrite, pureVars>>

\* new Response('OK', { status: 200 })
ClientReturn ==
  /\ client.pc = "done"
  /\ client' = ClientIdle
  /\ UNCHANGED <<kvRoster, kvCache, kvInstallations, now, ticks, faults, writes,
                 admin, warm, wBase, writeDone, postWrite, pureVars>>

\* ------------------------------------------------------------------------
\* Scheduled warm-up: CacheManager.warmCacheForAllInstallations
\* ------------------------------------------------------------------------
WarmIdle ==
  [pc |-> "idle", queue |-> <<>>, data |-> NoRoster, view |-> NoView,
   errors |-> 0, warmed |-> 0, readOk |-> FALSE, rendered |-> FALSE, threw |-> FALSE]

\* Object.keys(installations), in key order
RECURSIVE KeysOf(_)
KeysOf(S) ==
  IF S = {} THEN <<>>
  ELSE LET k == CHOOSE x \in S : \A y \in S : x <= y
       IN <<k>> \o KeysOf(S \ {k})

WarmStart ==
  /\ warm.pc = "idle"
  /\ InFlight < MaxInFlight
  /\ warm' = [WarmIdle EXCEPT !.pc = "list"]
  /\ wBase' = kvCache
  /\ UNCHANGED <<kvRoster, kvCache, kvInstallations, now, ticks, faults, writes,
                 admin, client, writeDone, postWrite, pureVars>>

\* the for loop moves to the next installation, or the result is built
WarmNext(w) ==
  IF Len(w.queue) <= 1
  THEN [w EXCEPT !.pc = "done", !.queue = <<>>]
  ELSE [w EXCEPT !.pc = "read", !.queue = Tail(w.queue)]

\* const installations = await this.storage.getInstallations()
WarmGetInstallations ==
  /\ warm.pc = "list"
  /\ \/ /\ NoFault
        /\ warm' = IF kvInstallations = {}
                   THEN [warm EXCEPT !.pc = "done"]
                   ELSE [warm EXCEPT !.pc = "read", !.queue = KeysOf(kvInstallations)]
     \/ /\ Fault
        /\ warm' = [warm EXCEPT !.pc = "done"]
  /\ UNCHANGED <<kvRoster, kvCache, kvInstallations, now, ticks, writes,
                 admin, client, wBase, writeDone, postWrite, pureVars>>

\* WarmFailed with the error leaving warmCacheForAllInstallations
WarmFailed_Rethrows(w) ==
  [w EXCEPT !.pc = "done", !.queue = <<>>, !.errors = w.errors + 1, !.threw = TRUE]

\* the catch of the loop body: errors.push(errorMsg)
WarmFailed(w) == WarmNext([w EXCEPT !.errors = w.errors + 1])

\* warmCacheForInstallation: getBirthdayData, then generateHomeView
WarmReadDone(outcome) ==
  IF outcome.kind = "fail" THEN WarmFailed(warm)
  ELSE IF outcome.writeBack
  THEN [warm EXCEPT !.pc = "writeback", !.data = outcome.data,
                    !.readOk = FALSE, !.rendered = FALSE]
  ELSE [warm EXCEPT !.pc = "store", !.data = outcome.data, !.readOk = TRUE,
                    !.rendered = TRUE,
                    !.view = generateHomeView(outcome.data.birthdays, FALSE, now)]

WarmRead ==
  /\ warm.pc = "read"
  /\ \/ /\ NoFault
        /\ warm' = WarmReadDone(ReadOutcome(kvRoster))
     \/ /\ Fault
        /\ warm' = WarmFailed(warm)
  /\ UNCHANGED <<kvRoster, kvCache, kvInstallations, now, ticks, writes,
                 admin, client, wBase, writeDone, postWrite, pureVars>>

WarmWriteBack ==
  /\ warm.pc = "writeback"
  /\ \/ /\ NoFault
        /\ kvRoster' = Stored(Stringify(warm.data))
        /\ postWrite' = postWrite \cup {warm.data}
        /\ warm' = [warm EXCEPT !.pc = "store", !.readOk = TRUE, !.rendered = TRUE,
                      !.view = generateHomeView(warm.data.birthdays, FALSE, now)]
     \/ /\ Fault
        /\ warm' = WarmFailed(warm)
        /\ UNCHANGED <<kvRoster, postWrite>>
  /\ UNCHANGED <<kvCache, kvInstallations, now, ticks, writes,
                 admin, client, wBase, writeDone, pureVars>>

\* a successful attempt: warmedInstallations++
WarmStored(w) == WarmNext([w EXCEPT !.warmed = w.warmed + 1])

\* await this.storage.storeCachedHomeView(homeView, 3600)
WarmStore ==
  /\ warm.pc = "store"
  /\ \/ /\ NoFault
        /\ kvCache' = CacheEntry(warm.view, now, HOME_VIEW_TTL_SECONDS)
        /\ warm' = WarmStored(warm)
     \/ /\ Fault
        /\ warm' = WarmFailed(warm)
        /\ UNCHANGED kvCache
  /\ UNCHANGED <<kvRoster, kvInstallations, now, ticks, writes,
                 admin, client, wBase, writeDone, postWrite, pureVars>>

\* return { success, warmedInstallations, errors, duration }
WarmReturn ==
  /\ warm.pc = "done"
  /\ warm' = WarmIdle
  /\ wBase' = kvCache
  /\ UNCHANGED <<kvRoster, kvCache, kvInstallations, now, ticks, faults, writes,
                 admin, client, writeDone, postWrite, pureVars>>

\* ------------------------------------------------------------------------
\* Daily refresh: CacheManager.refreshAllCaches, called by every attempt of
\* handleDailyCacheRefresh inside withTimeout. A call is a record like warm;
\* its errors count the failed clear and the errors of the warm-up
\* ------------------------------------------------------------------------
DailyTask == ScheduledTask("daily-cache-refresh", 600000, DEFAULT_RETRY_CONFIG)

\* the call of the attempt in progress has begun
CallBegun == Len(refresh) = sched.runs + 1

\* withTimeout(() => cacheManager.refreshAllCaches(), ...): task() is called
RefreshBegin ==
  /\ sched.pc = "attempt"
  /\ sched.task = DailyTask
  /\ Len(refresh) = sched.runs
  /\ refresh' = Append(refresh, [WarmIdle EXCEPT !.pc = "clear"])
  /\ UNCHANGED <<sched, event, dateVars, installVars, migrateVars, validateVars, sysVars>>

\* the call i moves on to d
Steps(i, d) == refresh' = [refresh EXCEPT ![i] = d]

\* await this.storage.clearCache(): a failure is pushed to errors
RefreshClear(i) ==
  /\ refresh[i].pc = "clear"
  /\ \/ /\ NoFault
        /\ kvCache' = EmptySlot
        /\ Steps(i, [refresh[i] EXCEPT !.pc = "list"])
     \/ /\ Fault
        /\ Steps(i, [refresh[i] EXCEPT !.pc = "list", !.errors = @ + 1])
        /\ UNCHANGED kvCache
  /\ UNCHANGED <<kvRoster, kvInstallations, now, ticks, writes, admin, client,
                 warm, wBase, writeDone, postWrite, sched, event,
                 dateVars, installVars, migrateVars, validateVars>>

\* the installations the warm-up iterates over; with none it is over
RefreshListed(c, teams) ==
  IF teams = {} THEN [c EXCEPT !.pc = "done"]
  ELSE [c EXCEPT !.pc = "read", !.queue = KeysOf(teams)]

\* warmCacheForAllInstallations: getInstallations; a failed read is {}
RefreshGetInstallations(i) ==
  /\ refresh[i].pc = "list"
  /\ \/ /\ NoFault
        /\ Steps(i, RefreshListed(refresh[i], kvInstallations))
     \/ /\ Fault
        /\ Steps(i, RefreshListed(refresh[i], {}))
  /\ UNCHANGED <<kvRoster, kvCache, kvInstallations, now, ticks, writes, admin,
                 client, warm, wBase, writeDone, postWrite, sched, event,
                 dateVars, installVars, migrateVars, validateVars>>

\* warmCacheForInstallation: getBirthdayData, then generateHomeView
RefreshReadDone(c, outcome) ==
  IF outcome.kind = "fail" THEN WarmFailed(c)
  ELSE IF outcome.writeBack
  THEN [c EXCEPT !.pc = "writeback", !.data = outcome.data]
  ELSE [c EXCEPT !.pc = "store", !.data = outcome.data, !.readOk = TRUE,
                 !.rendered = TRUE,
                 !.view = generateHomeView(outcome.data.birthdays, FALSE, now)]

RefreshRead(i) ==
  /\ refresh[i].pc = "read"
  /\ \/ /\ NoFault
        /\ Steps(i, RefreshReadDone(refresh[i], ReadOutcome(kvRoster)))
     \/ /\ Fault
        /\ Steps(i, WarmFailed(refresh[i]))
  /\ UNCHANGED <<kvRoster, kvCache, kvInstallations, now, ticks, writes, admin,
                 client, warm, wBase, writeDone, postWrite, sched, event,
                 dateVars, installVars, migrateVars, validateVars>>

\* getBirthdayData: kv.put of the migrated data, then generateHomeView
RefreshWriteBack(i) ==
  /\ refresh[i].pc = "writeback"
  /\ \/ /\ NoFault
        /\ kvRoster' = Stored(Stringify(refresh[i].data))
        /\ postWrite' = postWrite \cup {refresh[i].data}
        /\ Steps(i, [refresh[i] EXCEPT !.pc = "store", !.readOk = TRUE,
                        !.rendered = TRUE,
                        !.view = generateHomeView(refresh[i].data.birthdays,
                                                  FALSE, now)])
     \/ /\ Fault
        /\ Steps(i, WarmFailed(refresh[i]))
        /\ UNCHANGED <<kvRoster, postWrite>>
  /\ UNCHANGED <<kvCache, kvInstallations, now, ticks, writes, admin,
                 client, warm, wBase, writeDone, sched, event,
                 dateVars, installVars, migrateVars, validateVars>>

\* await this.storage.storeCachedHomeView(homeView, 3600)
RefreshStore(i) ==
  /\ refresh[i].pc = "store"
  /\ \/ /\ NoFault
        /\ kvCache' = CacheEntry(refresh[i].view, now, HOME_VIEW_TTL_SECONDS)
        /\ Steps(i, WarmStored(refresh[i]))
     \/ /\ Fault
        /\ Steps(i, WarmFailed(refresh[i]))
        /\ UNCHANGED kvCache
  /\ UNCHANGED <<kvRoster, kvInstallations, now, ticks, writes, admin,
                 client, warm, wBase, writeDone, postWrite, sched, event,
                 dateVars, installVars, migrateVars, validateVars>>

\* refreshAllCaches returned { success: errors.length === 0, ... }
RefreshDone(c) == c.pc = "done"
RefreshSucceeded(c) == c.pc = "done" /\ c.errors = 0

\* ------------------------------------------------------------------------
\* Installations: handleOAuthRedirect -> storeInstallation
\* ------------------------------------------------------------------------
\* handleOAuthRedirect calls storeInstallation(tokenData.team.id, installation)
InstallStart(t) ==
  /\ install[t].pc = "idle"
  /\ install' = [install EXCEPT ![t] = [NoInstall EXCEPT !.pc = "get"]]
  /\ UNCHANGED <<sysVars, schedVars, dateVars, migrateVars, validateVars>>

\* const installations = await this.getInstallations(): a failed read is {}
InstallGet(t) ==
  /\ install[t].pc = "get"
  /\ \/ /\ NoFault
        /\ install' = [install EXCEPT ![t] = [pc |-> "put",
                                              installations |-> kvInstallations]]
     \/ /\ Fault
        /\ install' = [install EXCEPT ![t] = [pc |-> "put", installations |-> {}]]
  /\ UNCHANGED <<kvRoster, kvCache, kvInstallations, now, ticks, writes, admin,
                 client, warm, wBase, writeDone, postWrite,
                 schedVars, dateVars, migrateVars, validateVars>>

\* installations[teamId] = installation; await this.kv.put(INSTALLATIONS,
\* JSON.stringify(installations)); a failed put is thrown on
InstallPut(t) ==
  /\ install[t].pc = "put"
  /\ \/ /\ NoFault
        /\ kvInstallations' = install[t].installations \cup {t}
        /\ install' = [install EXCEPT ![t].pc = "stored"]
     \/ /\ Fault
        /\ install' = [install EXCEPT ![t].pc = "failed"]
        /\ UNCHANGED kvInstallations
  /\ UNCHANGED <<kvRoster, kvCache, now, ticks, writes, admin,
                 client, warm, wBase, writeDone, postWrite,
                 schedVars, dateVars, migrateVars, validateVars>>

\* handleOAuthRedirect responds, whether or not the installation was stored
InstallReturn(t) ==
  /\ install[t].pc \in {"stored", "failed"}
  /\ install' = [install EXCEPT ![t] = NoInstall]
  /\ UNCHANGED <<sysVars, schedVars, dateVars, migrateVars, validateVars>>

\* ------------------------------------------------------------------------
\* The system
\* ------------------------------------------------------------------------
NoResult == MigrationResult(FALSE, NullVersion, NoRoster, <<>>, <<>>)
\* validateBirthdayData has not been called
NotValidated == DataFail("", "", 0)

\* what the roster key holds before the first request: nothing, or a payload
\* written before the schema change
InitialRosters ==
  { NoData,
    Stored(Members(<<Leg(Cy, Date0120)>>)),
    Stored(Members(<<NullEntry, Leg(BobPadded, Date229)>>)),
    Stored(Birthdays(<<Leg(Dee, DateXX)>>)) }

Init ==
  /\ kvRoster \in InitialRosters
  /\ kvCache = EmptySlot
  /\ kvInstallations \in {{}, Teams}
  /\ now = 0
  /\ ticks = 0
  /\ faults = 0
  /\ writes = 0
  /\ admin = AdminIdle
  /\ client = ClientIdle
  /\ warm = WarmIdle
  /\ wBase = EmptySlot
  /\ writeDone = FALSE
  /\ postWrite = {}
  /\ mInput = NonObjectPayload
  /\ mResult = NoResult
  /\ mAgain = NoResult
  /\ mStage = 0
  /\ vInput = NonObjectPayload
  /\ vResult = NotValidated
  /\ vDone = FALSE
  /\ DatesIdle
  /\ SchedIdle
  /\ InstallIdle

Next ==
  \/ \E i \in 1..Len(AdminInput) : AdminBegin(i)
  \/ AdminPut
  \/ AdminClearInStore
  \/ AdminClearCache
  \/ AdminReturn
  \/ \E kind \in RequestKinds : ClientStart(kind)
  \/ ClientGetInstallation
  \/ ClientGetCached
  \/ ClientClear
  \/ ClientRead
  \/ ClientWriteBack
  \/ ClientStore
  \/ ClientPublish
  \/ ClientCatch
  \/ ClientReturn
  \/ WarmStart
  \/ WarmGetInstallations
  \/ WarmRead
  \/ WarmWriteBack
  \/ WarmStore
  \/ WarmReturn
  \/ Tick
  \/ KVExpire

Spec == Init /\ [][Next]_vars

\* ------------------------------------------------------------------------
\* Two of the three operations at a time
\* ------------------------------------------------------------------------
\* the passage of time, seen from the store
NextClock == Tick \/ KVExpire

\* admin updates against home-tab requests
NextWrite ==
  \/ \E i \in 1..Len(AdminInput) : AdminBegin(i)
  \/ AdminPut
  \/ AdminClearInStore
  \/ AdminClearCache
  \/ AdminReturn
  \/ \E kind \in RequestKinds : ClientStart(kind)
  \/ ClientGetInstallation
  \/ ClientGetCached
  \/ ClientClear
  \/ ClientRead
  \/ ClientWriteBack
  \/ ClientStore
  \/ ClientPublish
  \/ ClientCatch
  \/ ClientReturn
  \/ NextClock

SpecWrite == Init /\ [][NextWrite]_vars

\* home-tab requests against the scheduled warm-up
NextRead ==
  \/ \E kind \in RequestKinds : ClientStart(kind)
  \/ ClientGetInstallation
  \/ ClientGetCached
  \/ ClientClear
  \/ ClientRead
  \/ ClientWriteBack
  \/ ClientStore
  \/ ClientPublish
  \/ ClientCatch
  \/ ClientReturn
  \/ WarmStart
  \/ WarmGetInstallations
  \/ WarmRead
  \/ WarmWriteBack
  \/ WarmStore
  \/ WarmReturn
  \/ NextClock

SpecRead == Init /\ [][NextRead]_vars

\* home-tab requests and the two toggles against the scheduled warm-up
NextToggle ==
  \/ \E kind \in RequestKinds \cup ToggleKinds : ClientStart(kind)
  \/ ClientGetInstallation
  \/ ClientGetCached
  \/ ClientClear
  \/ ClientRead
  \/ ClientWriteBack
  \/ ClientStore
  \/ ClientPublish
  \/ ClientCatch
  \/ ClientReturn
  \/ WarmStart
  \/ WarmGetInstallations
  \/ WarmRead
  \/ WarmWriteBack
  \/ WarmStore
  \/ WarmReturn
  \/ NextClock

SpecToggle == Init /\ [][NextToggle]_vars

\* ------------------------------------------------------------------------
\* Home-tab requests around midnight: Date.now() = 0 is 1970-01-01T00:00Z,
\* the requests begin half an hour before the day ends
\* ------------------------------------------------------------------------
Jan2 == Cur(Cy, 1, 2)

\* new Date(t)
DateAt(t) == [days |-> t \div MILLISECONDS_PER_DAY, ms |-> t % MILLISECONDS_PER_DAY]

InitMidnight ==
  /\ kvRoster \in {Stored(Birthdays(<<Jan20>>)), Stored(Birthdays(<<Jan2, Jan20>>))}
  /\ kvCache = EmptySlot
  /\ kvInstallations = Teams
  /\ now = MILLISECONDS_PER_DAY - TickStep \div 2
  /\ ticks = 0
  /\ faults = 0
  /\ writes = 0
  /\ admin = AdminIdle
  /\ client = ClientIdle
  /\ warm = WarmIdle
  /\ wBase = EmptySlot
  /\ writeDone = FALSE
  /\ postWrite = {}
  /\ mInput = NonObjectPayload
  /\ mResult = NoResult
  /\ mAgain = NoResult
  /\ mStage = 0
  /\ vInput = NonObjectPayload
  /\ vResult = NotValidated
  /\ vDone = FALSE
  /\ DatesIdle
  /\ SchedIdle
  /\ InstallIdle

NextMidnight ==
  \/ \E kind \in RequestKinds : ClientStart(kind)
  \/ ClientGetInstallation
  \/ ClientGetCached
  \/ ClientClear
  \/ ClientRead
  \/ ClientStore
  \/ ClientPublish
  \/ ClientCatch
  \/ ClientReturn
  \/ HalfTick
  \/ KVExpire

SpecMidnight == InitMidnight /\ [][NextMidnight]_vars

\* admin updates against the scheduled warm-up
NextWarm ==
  \/ \E i \in 1..Len(AdminInput) : AdminBegin(i)
  \/ AdminPut
  \/ AdminClearInStore
  \/ AdminClearCache
  \/ AdminReturn
  \/ WarmStart
  \/ WarmGetInstallations
  \/ WarmRead
  \/ WarmWriteBack
  \/ WarmStore
  \/ WarmReturn
  \/ NextClock

SpecWarm == Init /\ [][NextWarm]_vars

\* ------------------------------------------------------------------------
\* Rosters of more than MAX_BIRTHDAYS entries: the roster key holds one, in
\* current or in legacy format, written before the limit existed; admin
\* updates run against home-tab requests
\* ------------------------------------------------------------------------
BigStoredRosters ==
  { Stored(Birthdays(BigRoster)), Stored(Members(BigLegacyRoster)) }

InitBig ==
  /\ kvRoster \in BigStoredRosters
  /\ kvCache = EmptySlot
  /\ kvInstallations = Teams
  /\ now = 0
  /\ ticks = 0
  /\ faults = 0
  /\ writes = 0
  /\ admin = AdminIdle
  /\ client = ClientIdle
  /\ warm = WarmIdle
  /\ wBase = EmptySlot
  /\ writeDone = FALSE
  /\ postWrite = {}
  /\ mInput = NonObjectPayload
  /\ mResult = NoResult
  /\ mAgain = NoResult
  /\ mStage = 0
  /\ vInput = NonObjectPayload
  /\ vResult = NotValidated
  /\ vDone = FALSE
  /\ DatesIdle
  /\ SchedIdle
  /\ InstallIdle

\* the administrator submits the rosters of more than MAX_BIRTHDAYS entries;
\* the clock stands still
OversizedInputs ==
  {i \in 1..Len(AdminInput) : Len(AdminInput[i].birthdays) > MAX_BIRTHDAYS}
NextBig ==
  \/ \E i \in OversizedInputs : AdminBegin(i)
  \/ AdminReturn
  \/ \E kind \in RequestKinds : ClientStart(kind)
  \/ ClientGetInstallation
  \/ ClientGetCached
  \/ ClientClear
  \/ ClientRead
  \/ ClientWriteBack
  \/ ClientStore
  \/ ClientPublish
  \/ ClientCatch
  \/ ClientReturn

SpecBig == InitBig /\ [][NextBig]_vars

\* ------------------------------------------------------------------------
\* migrateToLatestFormat on its own: every payload of RawPayloads is migrated,
\* and a migrated roster is migrated again
\* ------------------------------------------------------------------------
InitMigrate ==
  /\ kvRoster = NoData
  /\ kvCache = EmptySlot
  /\ kvInstallations = {}
  /\ now = 0
  /\ ticks = 0
  /\ faults = 0
  /\ writes = 0
  /\ admin = AdminIdle
  /\ client = ClientIdle
  /\ warm = WarmIdle
  /\ wBase = EmptySlot
  /\ writeDone = FALSE
  /\ postWrite = {}
  /\ mInput \in RawPayloads
  /\ mResult = NoResult
  /\ mAgain = NoResult
  /\ mStage = 0
  /\ vInput = NonObjectPayload
  /\ vResult = NotValidated
  /\ vDone = FALSE
  /\ DatesIdle
  /\ SchedIdle
  /\ InstallIdle

Migrate ==
  /\ mStage = 0
  /\ mResult' = migrateToLatestFormat(mInput)
  /\ mStage' = 1
  /\ UNCHANGED <<mInput, mAgain, validateVars, dateVars, schedVars, installVars, sysVars>>

MigrateAgain ==
  /\ mStage = 1
  /\ mResult.success
  /\ mAgain' = migrateToLatestFormat(Stringify(mResult.migratedData))
  /\ mStage' = 2
  /\ UNCHANGED <<mInput, mResult, validateVars, dateVars, schedVars, installVars, sysVars>>

NextMigrate == Migrate \/ MigrateAgain

SpecMigrate == InitMigrate /\ [][NextMigrate]_vars

\* ------------------------------------------------------------------------
\* validateBirthdayData on its own: every payload of ValidatorPayloads is
\* validated
\* ------------------------------------------------------------------------
InitValidate ==
  /\ kvRoster = NoData
  /\ kvCache = EmptySlot
  /\ kvInstallations = {}
  /\ now = 0
  /\ ticks = 0
  /\ faults = 0
  /\ writes = 0
  /\ admin = AdminIdle
  /\ client = ClientIdle
  /\ warm = WarmIdle
  /\ wBase = EmptySlot
  /\ writeDone = FALSE
  /\ postWrite = {}
  /\ mInput = NonObjectPayload
  /\ mResult = NoResult
  /\ mAgain = NoResult
  /\ mStage = 0
  /\ vInput \in ValidatorPayloads
  /\ vResult = NotValidated
  /\ vDone = FALSE
  /\ DatesIdle
  /\ SchedIdle
  /\ InstallIdle

Validate ==
  /\ ~vDone
  /\ vResult' = validateBirthdayData(vInput)
  /\ vDone' = TRUE
  /\ UNCHANGED <<vInput, migrateVars, dateVars, schedVars, installVars, sysVars>>

NextValidate == Validate

SpecValidate == InitValidate /\ [][NextValidate]_vars

\* ------------------------------------------------------------------------
\* The date functions on their own: every reference date of ReferenceYears,
\* early, at noon and late in the day
\* ------------------------------------------------------------------------
\* years the reference dates are drawn from, starting at 2023
NumYears == 3
ReferenceYears == 2023..(2022 + NumYears)

TimesOfDay == {MILLISECONDS_PER_DAY \div 2, MILLISECONDS_PER_DAY - 1}

DatesOfYear(y) ==
  {[days |-> d, ms |-> t] :
     d \in DaysBeforeYear(y)..(DaysBeforeYear(y + 1) - 1), t \in TimesOfDay}

ReferenceDates == UNION {DatesOfYear(y) : y \in ReferenceYears}

\* the (month, day) pairs the validator accepts
ValidDays == {p \in (1..12) \X (1..31) : isValidDate(p[1], p[2])}

\* a roster with one entry on every calendar day, in calendar order
YearEntry(i, month) == Cur(BigName(i), month, i - DaysBeforeMonth(2024, month))
YearRoster == [i \in 1..366 |-> YearEntry(i, MonthIn(2024, i - 1))]

\* nothing stored, no request, no migration and no validation in progress
SystemIdle ==
  /\ kvRoster = NoData
  /\ kvCache = EmptySlot
  /\ kvInstallations = {}
  /\ now = 0
  /\ ticks = 0
  /\ faults = 0
  /\ writes = 0
  /\ admin = AdminIdle
  /\ client = ClientIdle
  /\ warm = WarmIdle
  /\ wBase = EmptySlot
  /\ writeDone = FALSE
  /\ postWrite = {}
  /\ mInput = NonObjectPayload
  /\ mResult = NoResult
  /\ mAgain = NoResult
  /\ mStage = 0
  /\ vInput = NonObjectPayload
  /\ vResult = NotValidated
  /\ vDone = FALSE

InitDates ==
  /\ SystemIdle
  /\ SchedIdle
  /\ InstallIdle
  /\ hDate \in ReferenceDates
  /\ hBirthdays = YearRoster
  /\ hExpanded = FALSE
  /\ hDays = 0
  /\ dUntil = NotCalled
  /\ hTodays = NotCalled
  /\ hUpcoming = NotCalled
  /\ hView = NotCalled

\* getDaysUntilBirthday(month, day, hDate) for every valid (month, day)
DaysUntil ==
  /\ ~dUntil.done
  /\ dUntil' = Returned([p \in ValidDays |-> getDaysUntilBirthday(p[1], p[2], hDate)])
  /\ UNCHANGED <<hDate, hBirthdays, hExpanded, hDays, hTodays, hUpcoming, hView,
                 schedVars, installVars, migrateVars, validateVars, sysVars>>

TodaysBirthdays ==
  /\ ~hTodays.done
  /\ hTodays' = Returned(getTodaysBirthdays(hBirthdays, hDate))
  /\ UNCHANGED <<hDate, hBirthdays, hExpanded, hDays, dUntil, hUpcoming, hView,
                 schedVars, installVars, migrateVars, validateVars, sysVars>>

NextDates == DaysUntil \/ TodaysBirthdays

SpecDates == InitDates /\ [][NextDates]_vars

\* ------------------------------------------------------------------------
\* calculateUpcomingBirthdays and generateHomeView on their own
\* ------------------------------------------------------------------------
Bob == <<66, 111, 98>>
Eve == <<69, 118, 101>>
Fay == <<70, 97, 121>>
Gus == <<71, 117, 115>>
Hal == <<72, 97, 108>>

\* the entries the rosters are built from: from January 15, two on one day
\* with the later name first, one today, the two ends of February, and the
\* days 30, 31 and 90 or 91 days away
HomePool ==
  <<Cur(Cy, 1, 20), Cur(Ann, 1, 20), CurId(Dee, 1, 15, SlackId),
    Cur(Bob, 2, 28), Cur(Eve, 2, 29), Cur(Fay, 2, 14), Cur(Gus, 2, 15),
    Cur(Hal, 4, 15)>>

\* longest roster drawn from the pool
MaxHome == 2

\* an entry on each of the 25 days from January 17 to February 10
DailyRoster == SubSeq(YearRoster, 17, 41)

\* the rosters of up to MaxHome different entries of the pool, the pool
\* itself and the roster with an entry on each of 25 days
HomeRosters ==
  {r \in SeqsUpTo({HomePool[i] : i \in 1..Len(HomePool)}, MaxHome) :
     \A i, j \in 1..Len(r) : i # j => r[i] # r[j]}
  \cup {HomePool, DailyRoster}

\* noon of January 15 and 16, of the last days of February and of December 31
HomeDates ==
  {d \in ReferenceDates :
     /\ d.ms = MILLISECONDS_PER_DAY \div 2
     /\ \/ getMonth(d) = 1 /\ getDate(d) \in {15, 16}
        \/ getMonth(d) = 2 /\ getDate(d) >= 28
        \/ getMonth(d) = 12 /\ getDate(d) = 31}

\* the days arguments: none, the two of the home view and NEXT_YEAR_DAYS
Horizons == {0, 30, 90, 365}

InitHome ==
  /\ SystemIdle
  /\ SchedIdle
  /\ InstallIdle
  /\ hDate \in HomeDates
  /\ hBirthdays \in HomeRosters
  /\ hExpanded = FALSE
  /\ hDays = 0
  /\ dUntil = NotCalled
  /\ hTodays = NotCalled
  /\ hUpcoming = NotCalled
  /\ hView = NotCalled

UpcomingBirthdays(days) ==
  /\ ~hUpcoming.done /\ ~hView.done
  /\ hDays' = days
  /\ hUpcoming' = Returned(calculateUpcomingBirthdays(hBirthdays, days, hDate))
  /\ UNCHANGED <<hDate, hBirthdays, hExpanded, dUntil, hTodays, hView,
                 schedVars, installVars, migrateVars, validateVars, sysVars>>

GenerateHomeView(expanded) ==
  /\ ~hUpcoming.done /\ ~hView.done
  /\ hExpanded' = expanded
  /\ hView' = Returned(HomeView(hBirthdays, expanded, hDate))
  /\ UNCHANGED <<hDate, hBirthdays, hDays, dUntil, hTodays, hUpcoming,
                 schedVars, installVars, migrateVars, validateVars, sysVars>>

NextHome ==
  \/ \E days \in Horizons : UpcomingBirthdays(days)
  \/ \E expanded \in BOOLEAN : GenerateHomeView(expanded)

SpecHome == InitHome /\ [][NextHome]_vars

\* ------------------------------------------------------------------------
\* One scheduled task under withScheduledErrorHandling
\* ------------------------------------------------------------------------
\* how long an attempt that settles before its timeout takes
SettleTimes == {1000, 20000}

InitSched ==
  /\ SystemIdle
  /\ DatesIdle
  /\ SchedIdle
  /\ InstallIdle

\* handleScheduledEvent routes the cron to a task
SchedStart(task) ==
  /\ sched.pc = "idle"
  /\ sched' = NextIteration(Scheduled("idle", task, 0, 0, 0, <<>>, 0), 0, 0)
  /\ UNCHANGED <<event, refresh, dateVars, installVars, migrateVars, validateVars, sysVars>>

\* task() resolves after d ms, before the timer of withTimeout
AttemptSucceeds(d) ==
  /\ sched.pc = "attempt"
  /\ d < sched.task.timeoutMs
  /\ sched' = Scheduled("returned", sched.task, sched.attempt, sched.runs + 1,
                        sched.failed, sched.waits, sched.elapsed + d)
  /\ UNCHANGED <<event, refresh, dateVars, installVars, migrateVars, validateVars, sysVars>>

\* task() rejects after d ms: the operation threw or reported a failure
AttemptFails(d) ==
  /\ sched.pc = "attempt"
  /\ d < sched.task.timeoutMs
  /\ sched' = Caught(sched, d)
  /\ UNCHANGED <<event, refresh, dateVars, installVars, migrateVars, validateVars, sysVars>>

\* the timer of withTimeout rejects first
AttemptTimesOut ==
  /\ sched.pc = "attempt"
  /\ sched' = Caught(sched, sched.task.timeoutMs)
  /\ UNCHANGED <<event, refresh, dateVars, installVars, migrateVars, validateVars, sysVars>>

\* the setTimeout of the retry fires
WaitElapses ==
  /\ sched.pc = "wait"
  /\ sched' = NextIteration(sched, sched.attempt + 1,
                            sched.elapsed + sched.waits[Len(sched.waits)])
  /\ UNCHANGED <<event, refresh, dateVars, installVars, migrateVars, validateVars, sysVars>>

NextSched ==
  \/ \E task \in ScheduledTasks : SchedStart(task)
  \/ \E d \in SettleTimes : AttemptSucceeds(d)
  \/ \E d \in SettleTimes : AttemptFails(d)
  \/ AttemptTimesOut
  \/ WaitElapses

SpecSched == InitSched /\ [][NextSched]_vars

\* every awaited promise settles: task() resolves, rejects or loses the race
\* against the timer of withTimeout, and the timer of a retry fires
SpecSchedFair == SpecSched /\ WF_vars(NextSched)

\* ------------------------------------------------------------------------
\* handleScheduledEvent: a cron trigger fires, its handler runs its task under
\* withScheduledErrorHandling, and the event ends
\* ------------------------------------------------------------------------
\* the switch: a routed cron awaits its handler, any other throws
\* ScheduledTaskError into the catch block
EventStart(cron) ==
  /\ event.pc = "idle"
  /\ sched.pc = "idle"
  /\ IF Routed(cron)
     THEN /\ event' = ScheduledEvent("task", cron, FALSE, FALSE)
          /\ sched' = NextIteration(Scheduled("idle", TaskOf(cron), 0, 0, 0, <<>>, 0),
                                    0, 0)
     ELSE /\ event' = EventEnds(cron, TRUE)
          /\ UNCHANGED sched
  /\ UNCHANGED <<refresh, dateVars, installVars, migrateVars, validateVars, sysVars>>

\* withScheduledErrorHandling returned or threw: the handler settles and
\* handleScheduledEvent ends
EventSettles ==
  /\ event.pc = "task"
  /\ sched.pc \in {"returned", "raised"}
  /\ event' = EventEnds(event.cron, sched.pc = "raised")
  /\ UNCHANGED <<sched, refresh, dateVars, installVars, migrateVars, validateVars, sysVars>>

NextEvent ==
  \/ \E cron \in Crons : EventStart(cron)
  \/ \E d \in SettleTimes : AttemptSucceeds(d)
  \/ \E d \in SettleTimes : AttemptFails(d)
  \/ AttemptTimesOut
  \/ WaitElapses
  \/ EventSettles

SpecEvent == InitSched /\ [][NextEvent]_vars

\* every awaited promise settles
SpecEventFair == SpecEvent /\ WF_vars(NextEvent)

\* ------------------------------------------------------------------------
\* The daily cache refresh: every attempt of the task calls refreshAllCaches
\* against the store; a call that lost the race against the timer of its
\* withTimeout is not cancelled. The clock of the store stands still
\* ------------------------------------------------------------------------
InitRefresh ==
  /\ kvRoster \in InitialRosters
  /\ kvCache \in {EmptySlot, CacheEntry(generateWelcomeView, 0, HOME_VIEW_TTL_SECONDS)}
  /\ kvInstallations \in {{}, Teams}
  /\ now = 0
  /\ ticks = 0
  /\ faults = 0
  /\ writes = 0
  /\ admin = AdminIdle
  /\ client = ClientIdle
  /\ warm = WarmIdle
  /\ wBase = EmptySlot
  /\ writeDone = FALSE
  /\ postWrite = {}
  /\ mInput = NonObjectPayload
  /\ mResult = NoResult
  /\ mAgain = NoResult
  /\ mStage = 0
  /\ vInput = NonObjectPayload
  /\ vResult = NotValidated
  /\ vDone = FALSE
  /\ DatesIdle
  /\ SchedIdle
  /\ InstallIdle

\* refreshAllCaches returned success: the attempt resolves
RefreshReturns ==
  /\ CallBegun
  /\ RefreshSucceeded(refresh[Len(refresh)])
  /\ \E d \in SettleTimes : AttemptSucceeds(d)

\* refreshAllCaches returned errors: the task throws ScheduledTaskError
RefreshThrows ==
  /\ CallBegun
  /\ RefreshDone(refresh[Len(refresh)])
  /\ ~RefreshSucceeded(refresh[Len(refresh)])
  /\ \E d \in SettleTimes : AttemptFails(d)

\* the timer of withTimeout rejects while refreshAllCaches is pending
RefreshTimesOut ==
  /\ CallBegun
  /\ ~RefreshDone(refresh[Len(refresh)])
  /\ AttemptTimesOut

NextRefresh ==
  \/ SchedStart(DailyTask)
  \/ RefreshBegin
  \/ \E i \in DOMAIN refresh : RefreshClear(i)
  \/ \E i \in DOMAIN refresh : RefreshGetInstallations(i)
  \/ \E i \in DOMAIN refresh : RefreshRead(i)
  \/ \E i \in DOMAIN refresh : RefreshWriteBack(i)
  \/ \E i \in DOMAIN refresh : RefreshStore(i)
  \/ RefreshReturns
  \/ RefreshThrows
  \/ RefreshTimesOut
  \/ WaitElapses

SpecRefresh == InitRefresh /\ [][NextRefresh]_vars

\* ------------------------------------------------------------------------
\* OAuth redirects of several workspaces: every team may install, and install
\* again, while the installations of others are in progress
\* ------------------------------------------------------------------------
InitInstall ==
  /\ kvRoster = NoData
  /\ kvCache = EmptySlot
  /\ kvInstallations \in SUBSET Teams
  /\ now = 0
  /\ ticks = 0
  /\ faults = 0
  /\ writes = 0
  /\ admin = AdminIdle
  /\ client = ClientIdle
  /\ warm = WarmIdle
  /\ wBase = EmptySlot
  /\ writeDone = FALSE
  /\ postWrite = {}
  /\ mInput = NonObjectPayload
  /\ mResult = NoResult
  /\ mAgain = NoResult
  /\ mStage = 0
  /\ vInput = NonObjectPayload
  /\ vResult = NotValidated
  /\ vDone = FALSE
  /\ DatesIdle
  /\ SchedIdle
  /\ InstallIdle

NextInstall ==
  \/ \E t \in Teams : InstallStart(t)
  \/ \E t \in Teams : InstallGet(t)
  \/ \E t \in Teams : InstallPut(t)
  \/ \E t \in Teams : InstallReturn(t)

SpecInstall == InitInstall /\ [][NextInstall]_vars

\* ------------------------------------------------------------------------
\* Properties
\* ------------------------------------------------------------------------
\* C1: when storeBirthdayData returns successfully the cache slot is Empty:
\* a getCachedHomeView that follows immediately returns null, also when a
\* Warm entry with a future expiresAt existed before the write.
C1_WriteLeavesCacheEmpty ==
  [][(admin.pc = "clear1" /\ admin'.pc = "clear2")
       => getCachedHomeView(kvCache', now', FALSE) = NoView]_vars

\* storeBirthdayData has just returned and it removed a Warm, unexpired entry
C1_Witness == admin.pc = "clear2" /\ admin.warmBefore /\ ~kvCache.present

\* C2: once a roster write has completed, every getCachedHomeView returns
\* null or a view rendered from a roster stored by or after that write.
C2_NoStaleRead ==
  (writeDone /\ admin.pc # "clear1")
    => \/ getCachedHomeView(kvCache, now, FALSE) = NoView
       \/ [birthdays |-> getCachedHomeView(kvCache, now, FALSE).birthdays] \in postWrite

\* C3: for every payload the validator accepts, the empty roster included,
\* migrateToLatestFormat succeeds and returns the validated roster, and
\* migrating that result again returns the same roster.
C3_MigrationIdempotent ==
  validateBirthdayData(mInput).ok
    => /\ mStage >= 1 => /\ mResult.success
                         /\ mResult.migratedData = validateBirthdayData(mInput).data
       /\ mStage = 2 => /\ mAgain.success
                        /\ mAgain.migratedData = mResult.migratedData

\* C4: getBirthdayData returns the empty roster only when the roster key
\* holds no data, and throws whenever the stored data cannot be migrated.
C4_EmptyOnlyWhenNoData ==
  [][/\ (/\ client.pc = "read"
         /\ client'.pc \in {"store", "writeback"}
         /\ client'.data = NoRoster) => ~kvRoster.present
     /\ (/\ warm.pc = "read"
         /\ warm'.pc \in {"store", "writeback"}
         /\ warm'.data = NoRoster) => ~kvRoster.present
     /\ (/\ client.pc = "read"
         /\ client'.pc # "read"
         /\ kvRoster.present
         /\ ~migrateToLatestFormat(kvRoster.value).success)
          => client'.pc = "catch" /\ client'.err # <<>>
     /\ (/\ warm.pc = "read"
         /\ warm' # warm
         /\ kvRoster.present
         /\ ~migrateToLatestFormat(kvRoster.value).success)
          => warm'.errors = warm.errors + 1 /\ warm'.pc \in {"read", "done"}]_vars

\* a read of stored data that could not be migrated has thrown
C4_Witness ==
  /\ client.pc = "catch"
  /\ client.err[1] = "Data migration failed"
  /\ kvRoster.present
  /\ ~migrateToLatestFormat(kvRoster.value).success

\* C5: a failing cache read is a miss and a failing cache write is skipped:
\* in both cases the request publishes the view it rendered.
C5_CacheFailuresDoNotBlock ==
  (/\ client.pc = "done"
   /\ client.rendered
   /\ client.cacheReadFailed \/ client.storeFailed
   /\ client.err = <<>> \/ client.storeFailed)
    => client.pub = client.view

\* C6: whatever failure occurs while serving a home read, the view published
\* is a fixed generic document that does not depend on the error message.
C6_GenericErrorView ==
  (client.pc = "done" /\ client.err # <<>> /\ client.pub # NoView)
    => client.pub = generateErrorView(<<>>)

\* C6 as amended: the view published after a failure, if any, is the error
\* document of generateErrorView, whose details block is the error message.
C6_ErrorViewCarriesMessage ==
  (client.pc = "done" /\ client.err # <<>>)
    => client.pub \in {NoView, generateErrorView(client.err)}

\* an error view has been published
C6_Witness == client.pc = "done" /\ client.err # <<>> /\ client.pub.kind = "error"

\* C7: a validation or size-limit failure of a roster write, and a migration
\* failure of a roster read, write or delete no storage key.
C7_FailuresWriteNothing ==
  [][((\/ /\ admin.pc = "idle"
          /\ admin'.out \in {"validation_error", "limit_error"}
       \/ /\ client.pc = "read"
          /\ client'.pc = "catch"
          /\ client'.err[1] = "Data migration failed")
        => /\ kvRoster' = kvRoster
           /\ kvCache' = kvCache
           /\ kvInstallations' = kvInstallations)]_vars

\* a write has failed the size limit while a read has failed its migration
C7_Witness ==
  /\ admin.pc = "done"
  /\ admin.out = "limit_error"
  /\ client.pc = "catch"
  /\ client.err[1] = "Data migration failed"

\* C8: getCachedHomeView returns the stored payload if and only if an entry
\* exists and now <= expiresAt, and null in every other case.
C8_LazyExpiryIff ==
  [][(client.pc = "cache" /\ client'.pc # "cache")
       => ((client'.pc = "publish" /\ client'.view = kvCache.data)
             <=> (kvCache.present /\ now <= kvCache.expiresAt))]_vars

\* C8 as amended: the stored payload is returned if and only if the kv.get
\* succeeds, an entry exists and now <= expiresAt; null in every other case.
C8_LazyExpiry ==
  [][(client.pc = "cache" /\ client'.pc # "cache")
       => /\ (client'.pc = "publish" /\ client'.view = kvCache.data)
               <=> (faults' = faults /\ kvCache.present /\ now <= kvCache.expiresAt)
          /\ client'.pc \in {"publish", "read"}
          /\ client'.pc = "read" => client'.view = NoView]_vars

\* a cached view was returned at the very instant of its expiresAt
C8_Witness ==
  /\ client.pc = "publish"
  /\ client.fromCache
  /\ kvCache.present
  /\ client.view = kvCache.data
  /\ now = kvCache.expiresAt

\* C9: the cache slot becomes Warm only by a storeCachedHomeView that follows
\* a successful roster read and generateHomeView of the same operation, and
\* never with an error view.
C9_WarmOnlyAfterRender ==
  [][(kvCache' # kvCache /\ kvCache'.present)
       => /\ kvCache'.data.kind \in {"home", "welcome"}
          /\ \/ /\ client.pc = "store"
                /\ client.readOk /\ client.rendered
                /\ kvCache'.data = client.view
                /\ client.view.birthdays = client.data.birthdays
             \/ /\ warm.pc = "store"
                /\ warm.readOk /\ warm.rendered
                /\ kvCache'.data = warm.view
                /\ warm.view.birthdays = warm.data.birthdays]_vars

\* the slot is Warm with a rendered home view
C9_Witness == kvCache.present /\ kvCache.data.kind = "home"

\* C10: if the warm-up fails at any step it returns without throwing and the
\* cache slot holds exactly what it held before the warm-up started.
C10_FailedWarmupLeavesCache ==
  (warm.pc = "done" /\ warm.errors > 0) => (~warm.threw /\ kvCache = wBase)

\* C10 as amended: the warm-up returns without throwing, and the cache slot
\* differs from what it held before only if the attempt of some installation
\* succeeded.
C10_BestEffort ==
  (warm.pc # "idle") => (~warm.threw /\ (warm.warmed = 0 => kvCache = wBase))

\* a warm-up has finished with every attempt failed
C10_Witness == warm.pc = "done" /\ warm.errors > 0 /\ warm.warmed = 0

\* C11: every operation that writes the roster key leaves the cache slot
\* Empty when it completes: storeBirthdayData, and the write-back of the
\* migrated roster inside getBirthdayData (of a home-tab request or of the
\* warm-up).
C11_RewriteClearsCache ==
  [][(\/ admin.pc = "clear1" /\ admin'.pc = "clear2"
      \/ client.pc = "writeback" /\ client'.pc = "store"
      \/ warm.pc = "writeback" /\ warm'.pc = "store")
       => getCachedHomeView(kvCache', now', FALSE) = NoView]_vars

\* the legacy entry whose migration is r became a valid current entry
GoodLegacy(r) == r.ok /\ validateBirthdayEntry(r.value).ok

\* what C12 asks of the migration of the legacy entries whose results are res
EntryByEntry(res, result) ==
  (\E i \in DOMAIN res : GoodLegacy(res[i]))
    => /\ result.success
       /\ \A i \in DOMAIN res :
            IF GoodLegacy(res[i])
            THEN \E k \in DOMAIN result.migratedData.birthdays :
                   result.migratedData.birthdays[k] = validateBirthdayEntry(res[i].value).value
            ELSE res[i].ok \/ \E k \in DOMAIN result.warnings :
                                result.warnings[k].index = i - 1

\* C12: the migration of a legacy payload succeeds whenever at least one of
\* its entries migrates to a valid current entry: the result holds every such
\* entry, and every entry that could not be migrated is skipped with a
\* warning.
C12_EntryByEntry ==
  (mStage >= 1 /\ detectDataVersion(mInput) = 0)
    => EntryByEntry(LegacyResults(LegacyArray(mInput), 1, Len(LegacyArray(mInput))),
                    mResult)

\* C13: when a getBirthdayData that migrated a stored payload not in current
\* format (legacy or of unrecognized shape) returns, the roster key holds a
\* payload in current format, so that the next getBirthdayData neither
\* migrates nor writes back.
C13_MigratesOnce ==
  [][(\/ /\ client.pc = "writeback" \/ (client.pc = "read" /\ kvRoster.present)
         /\ client'.pc = "store"
         /\ detectDataVersion(kvRoster.value) # CURRENT_SCHEMA_VERSION
      \/ /\ warm.pc = "writeback" \/ (warm.pc = "read" /\ kvRoster.present)
         /\ warm'.pc = "store"
         /\ detectDataVersion(kvRoster.value) # CURRENT_SCHEMA_VERSION)
       => /\ kvRoster'.present
          /\ detectDataVersion(kvRoster'.value) = CURRENT_SCHEMA_VERSION]_vars

\* C14: a roster that migrateToLatestFormat returns with success: true is
\* one the validator accepts and returns unchanged: every entry has an
\* integer month in 1..12 and a day that exists in that month (29 allowed in
\* February), and no two names are equal ignoring case.
C14_MigratedIsValid ==
  (mStage >= 1 /\ mResult.success)
    => /\ validateBirthdayData(Stringify(mResult.migratedData)).ok
       /\ \A i \in DOMAIN mResult.migratedData.birthdays :
            /\ mResult.migratedData.birthdays[i].monthT = "num"
            /\ mResult.migratedData.birthdays[i].monthF = 0
            /\ mResult.migratedData.birthdays[i].month \in 1..12
            /\ mResult.migratedData.birthdays[i].dayT = "num"
            /\ mResult.migratedData.birthdays[i].dayF = 0
            /\ mResult.migratedData.birthdays[i].day >= 1
            /\ mResult.migratedData.birthdays[i].day
                 <= (IF mResult.migratedData.birthdays[i].month = 2 THEN 29
                     ELSE daysInMonth[mResult.migratedData.birthdays[i].month])
       /\ \A i, j \in DOMAIN mResult.migratedData.birthdays :
            i # j => toLowerCase(mResult.migratedData.birthdays[i].name)
                       # toLowerCase(mResult.migratedData.birthdays[j].name)

\* a legacy payload of two entries has been migrated with success
C14_Witness ==
  /\ mStage >= 1
  /\ mResult.success
  /\ mResult.originalVersion = 0
  /\ Len(mResult.migratedData.birthdays) = 2

\* the names a and b, surrounding white space apart, are equal ignoring case
SameNameIgnoringCase(a, b) ==
  /\ Len(a) = Len(b)
  /\ \A k \in 1..Len(a) : LowerChar(a[k]) = LowerChar(b[k])

\* C15: validateBirthdayData throws for every roster that has two entries
\* whose names are equal ignoring case, whichever of the two comes first and
\* whatever their positions in the array.
C15_DuplicatesRejected ==
  (/\ vDone
   /\ vInput.obj
   /\ vInput.birthdaysT = "arr"
   /\ \E i, j \in DOMAIN vInput.birthdays :
        /\ i # j
        /\ vInput.birthdays[i].nameT = "str"
        /\ vInput.birthdays[j].nameT = "str"
        /\ SameNameIgnoringCase(trim(vInput.birthdays[i].name),
                                trim(vInput.birthdays[j].name)))
    => ~vResult.ok

\* "ann" first and "Ann" last, an entry apart: rejected as a duplicate
C15_Witness ==
  /\ vDone
  /\ Len(vInput.birthdays) = 3
  /\ vInput.birthdays[1].name = AnnLower
  /\ vInput.birthdays[2].name = BobPadded
  /\ vInput.birthdays[3].name = Ann
  /\ ~vResult.ok
  /\ vResult.msg = "Duplicate name found"

\* C16: a roster that has both two entries with the same name ignoring case
\* and an entry that is invalid on its own is rejected with the error of an
\* invalid entry, whatever the position of that entry.
C16_InvalidEntryBeforeDuplicate ==
  (/\ vDone
   /\ vInput.obj
   /\ vInput.birthdaysT = "arr"
   /\ \E i, j \in DOMAIN vInput.birthdays :
        /\ i # j
        /\ vInput.birthdays[i].nameT = "str"
        /\ vInput.birthdays[j].nameT = "str"
        /\ SameNameIgnoringCase(trim(vInput.birthdays[i].name),
                                trim(vInput.birthdays[j].name))
   /\ \E k \in DOMAIN vInput.birthdays : ~validateBirthdayEntry(vInput.birthdays[k]).ok)
    => /\ ~vResult.ok
       /\ \E k \in DOMAIN vInput.birthdays :
            /\ ~validateBirthdayEntry(vInput.birthdays[k]).ok
            /\ vResult.index = k - 1
            /\ vResult.msg = validateBirthdayEntry(vInput.birthdays[k]).msg

\* C17: when validateBirthdayData fails because of a duplicate name, the
\* error names the indices of both entries that carry the name.
C17_DuplicateNamesBothIndices ==
  (vDone /\ ~vResult.ok /\ vResult.msg = "Duplicate name found")
    => \E i, j \in DOMAIN vInput.birthdays :
         /\ i < j
         /\ SameNameIgnoringCase(trim(vInput.birthdays[i].name),
                                 trim(vInput.birthdays[j].name))
         /\ {i - 1, j - 1} \subseteq IndicesNamed(vResult)

\* entry i of the array b is a violation: it is invalid on its own, or its
\* name repeats, ignoring case, that of an entry before it
Violation(b, i) ==
  \/ ~validateBirthdayEntry(b[i]).ok
  \/ \E j \in 1..(i - 1) :
       /\ b[j].nameT = "str"
       /\ SameNameIgnoringCase(trim(b[j].name), trim(b[i].name))

\* the error err is the one that entry k of b gives rise to, with k's index
FailsAt(b, k, err) ==
  /\ err.index = k - 1
  /\ (k - 1) \in IndicesNamed(err)
  /\ IF validateBirthdayEntry(b[k]).ok
     THEN err.msg = "Duplicate name found" /\ err.field = "name"
     ELSE /\ err.msg = validateBirthdayEntry(b[k]).msg
          /\ err.field = validateBirthdayEntry(b[k]).field

\* C18: validateBirthdayData fails on the first violation in array order:
\* when several entries are invalid, the error is never that of an entry
\* that has a violation before it; it is the error of the lowest-indexed
\* entry in violation, and carries that entry's index.
C18_FirstViolationReported ==
  (/\ vDone
   /\ vInput.obj
   /\ vInput.birthdaysT = "arr"
   /\ \E k \in DOMAIN vInput.birthdays : Violation(vInput.birthdays, k))
    => /\ ~vResult.ok
       /\ \E k \in DOMAIN vInput.birthdays :
            /\ Violation(vInput.birthdays, k)
            /\ \A j \in 1..(k - 1) : ~Violation(vInput.birthdays, j)
            /\ FailsAt(vInput.birthdays, k, vResult)

\* a valid entry followed by two invalid ones: the error is that of index 1
C18_Witness ==
  /\ vDone
  /\ Len(vInput.birthdays) = 3
  /\ validateBirthdayEntry(vInput.birthdays[1]).ok
  /\ ~validateBirthdayEntry(vInput.birthdays[2]).ok
  /\ ~validateBirthdayEntry(vInput.birthdays[3]).ok
  /\ validateBirthdayEntry(vInput.birthdays[2]).msg
       # validateBirthdayEntry(vInput.birthdays[3]).msg
  /\ vResult.index = 1
  /\ vResult.msg = validateBirthdayEntry(vInput.birthdays[2]).msg

\* C19: every name of a roster that validateBirthdayData returns is 1 to 100
\* characters long, has no white space at either end and no two consecutive
\* white space characters inside.
C19_NamesNormalized ==
  (vDone /\ vResult.ok)
    => \A i \in DOMAIN vResult.data.birthdays :
         /\ Len(vResult.data.birthdays[i].name) \in 1..MAX_NAME_LENGTH
         /\ ~IsSpace(vResult.data.birthdays[i].name[1])
         /\ ~IsSpace(vResult.data.birthdays[i].name[Len(vResult.data.birthdays[i].name)])
         /\ \A k \in 1..(Len(vResult.data.birthdays[i].name) - 1) :
              ~(/\ IsSpace(vResult.data.birthdays[i].name[k])
                /\ IsSpace(vResult.data.birthdays[i].name[k + 1]))

\* C20: a roster of more than MAX_BIRTHDAYS valid entries passes
\* validateBirthdayData, and getBirthdayData returns it, migrated and written
\* back when it is in legacy format, without error; storeBirthdayData throws
\* for it before any put, so the roster key keeps what it held.
C20_LimitOnlyOnWrite ==
  [][/\ \A i \in 1..Len(AdminInput) :
          (Len(AdminInput[i].birthdays) > MAX_BIRTHDAYS /\ AdminBegin(i))
            => /\ HandlerValidated[i].ok
               /\ Len(HandlerValidated[i].data.birthdays) = Len(AdminInput[i].birthdays)
               /\ admin'.pc = "done"
               /\ admin'.out = "limit_error"
               /\ kvRoster' = kvRoster
     /\ (admin.out = "limit_error" /\ admin' # admin)
          => admin' = AdminIdle /\ kvRoster' = kvRoster
     /\ (/\ client.pc = "read"
         /\ client' # client
         /\ faults' = faults
         /\ Len(LegacyArray(kvRoster.value)) > MAX_BIRTHDAYS)
          => /\ client'.pc \in {"store", "writeback"}
             /\ Len(client'.data.birthdays) = Len(LegacyArray(kvRoster.value))
     /\ (/\ client.pc = "writeback"
         /\ client' # client
         /\ faults' = faults
         /\ Len(client.data.birthdays) > MAX_BIRTHDAYS)
          => /\ client'.pc = "store"
             /\ kvRoster' = Stored(Stringify(client.data))]_vars

\* an update of more than MAX_BIRTHDAYS entries has been refused while a
\* request has read a stored roster of more than MAX_BIRTHDAYS entries
C20_Witness ==
  /\ admin.pc = "done"
  /\ admin.out = "limit_error"
  /\ client.pc = "store"
  /\ Len(client.data.birthdays) > MAX_BIRTHDAYS
  /\ kvRoster = Stored(Birthdays(client.data.birthdays))

\* (month, day) is the calendar day of the date, a February 29 standing for
\* February 28 in a year that is not a leap year
\* the year, the month and the day of the date are y, m and d
CalendarDayMatches(month, day, y, m, d) ==
  IF month = 2 /\ day = 29 /\ DaysBeforeYear(y + 1) - DaysBeforeYear(y) = 365
  THEN m = 2 /\ d = 28
  ELSE m = month /\ d = day

DaysUntilInRange(until, y, m, d) ==
  \A p \in ValidDays :
    /\ until[p] \in 0..366
    /\ until[p] = 0 <=> CalendarDayMatches(p[1], p[2], y, m, d)

\* C21: for every valid (month, day) and every reference date,
\* getDaysUntilBirthday returns an integer from 0 to 366, and returns 0
\* exactly when (month, day) is the calendar day of the reference date, a
\* February 29 matching February 28 in a year that is not a leap year.
C21_DaysUntilRange ==
  dUntil.done =>
    DaysUntilInRange(dUntil.value, getFullYear(hDate), getMonth(hDate), getDate(hDate))

\* February 28 of a year that is not a leap year, late in the day: the
\* February 29 birthday is today, March 1 is a day away and February 27 is
\* 364 days away
C21_Witness ==
  /\ dUntil.done
  /\ getFullYear(hDate) = 2023 /\ getMonth(hDate) = 2 /\ getDate(hDate) = 28
  /\ hDate.ms = MILLISECONDS_PER_DAY - 1
  /\ dUntil.value[<<2, 29>>] = 0
  /\ dUntil.value[<<2, 28>>] = 0
  /\ dUntil.value[<<3, 1>>] = 1
  /\ dUntil.value[<<2, 27>>] = 364

\* the entries of birthdays whose day is 0 days away according to until, the
\* getDaysUntilBirthday of every calendar day
ZeroDaysAway(birthdays, until) ==
  TodaysOf(SelectSeq(birthdays, LAMBDA b : until[<<b.month, b.day>>] = 0))

\* C22: getTodaysBirthdays(roster, date) returns exactly the entries whose
\* getDaysUntilBirthday(month, day, date) is 0, February 29 entries in leap
\* years and in other years included.
C22_TodaysAreZeroDaysAway ==
  (hTodays.done /\ dUntil.done) =>
    hTodays.value = ZeroDaysAway(hBirthdays, dUntil.value)

\* February 28 of a year that is not a leap year: the February 28 and the
\* February 29 entries of the roster are both returned
C22_Witness ==
  /\ hTodays.done /\ dUntil.done
  /\ getFullYear(hDate) = 2025 /\ getMonth(hDate) = 2 /\ getDate(hDate) = 28
  /\ Len(hTodays.value) = 2
  /\ hTodays.value[1].day = 28 /\ hTodays.value[2].day = 29
  /\ hTodays.value[2].daysUntil = 0

\* the positions of the roster whose birthday is at most days away
Within(birthdays, days, date) ==
  {i \in 1..Len(birthdays) :
     getDaysUntilBirthday(birthdays[i].month, birthdays[i].day, date) <= days}

\* result holds the entries of the roster at the positions kept, each once,
\* with their daysUntil
ExactlyKept(result, birthdays, kept, date) ==
  /\ Len(result) = Cardinality(kept)
  /\ \A i \in kept :
       \E k \in 1..Len(result) :
         /\ result[k].name = birthdays[i].name
         /\ result[k].month = birthdays[i].month
         /\ result[k].day = birthdays[i].day
         /\ result[k].daysUntil =
              getDaysUntilBirthday(birthdays[i].month, birthdays[i].day, date)

\* ascending daysUntil, and ascending names among equal daysUntil
OrderedByDaysThenName(result) ==
  \A k \in 1..(Len(result) - 1) :
    \/ result[k].daysUntil < result[k + 1].daysUntil
    \/ /\ result[k].daysUntil = result[k + 1].daysUntil
       /\ localeCompare(result[k].name, result[k + 1].name) <= 0

\* C23: calculateUpcomingBirthdays(roster, H) returns exactly the roster
\* entries with daysUntil <= H, each once, ordered by ascending daysUntil with
\* ties ordered by name.
C23_UpcomingFilteredAndSorted ==
  hUpcoming.done =>
    /\ ExactlyKept(hUpcoming.value, hBirthdays, Within(hBirthdays, hDays, hDate), hDate)
    /\ OrderedByDaysThenName(hUpcoming.value)

\* the pool on January 15, 2023 with 30 days: Dee today, then Ann before Cy
\* on January 20 although Cy comes first in the roster, then Fay on day 30;
\* Gus on day 31 and the later entries are left out
C23_Witness ==
  /\ hUpcoming.done /\ hDays = 30 /\ hBirthdays = HomePool
  /\ getFullYear(hDate) = 2023 /\ getMonth(hDate) = 1 /\ getDate(hDate) = 15
  /\ Len(hUpcoming.value) = 4
  /\ hUpcoming.value[1].name = Dee /\ hUpcoming.value[1].daysUntil = 0
  /\ hUpcoming.value[2].name = Ann /\ hUpcoming.value[2].daysUntil = 5
  /\ hUpcoming.value[3].name = Cy /\ hUpcoming.value[3].daysUntil = 5
  /\ hUpcoming.value[4].name = Fay /\ hUpcoming.value[4].daysUntil = 30

\* the lines of a view that list birthdays: one block per birthday of today,
\* one block per group of the upcoming section
TodayLines(view) == SelectSeq(view.blocks, LAMBDA b : b.text = "is celebrating today")
GroupLines(view) == SelectSeq(view.blocks, LAMBDA b : b.text = "group")

\* the names a view lists, each as the mention or the bold name shown
ListedToday(lines) == {lines[k].data : k \in 1..Len(lines)}
ListedIn(line) == {line.data.names[n] : n \in 1..Len(line.data.names)}
ListedUpcoming(lines) == UNION {ListedIn(lines[k]) : k \in 1..Len(lines)}
Listed(view) == ListedToday(TodayLines(view)) \cup ListedUpcoming(GroupLines(view))

\* the days until the birthday of entry i of the roster given to the generator
DaysAway(i) == getDaysUntilBirthday(hBirthdays[i].month, hBirthdays[i].day, hDate)

\* the horizon of the view: 30 days compact, 90 days expanded
Horizon == IF hExpanded THEN 90 ELSE 30

\* C24: the home view rendered for horizon H (30 days compact, 90 days
\* expanded) never lists an entry whose daysUntil exceeds H.
C24_NothingBeyondHorizon ==
  hView.done =>
    \A i \in 1..Len(hBirthdays) :
      DaysAway(i) > Horizon => NameText(hBirthdays[i]) \notin Listed(hView.value)

\* the pool on January 15, 2023, compact: Fay, 30 days away, is listed and
\* Gus, 31 days away, is not
C24_Witness ==
  /\ hView.done /\ ~hExpanded /\ hBirthdays = HomePool
  /\ getFullYear(hDate) = 2023 /\ getMonth(hDate) = 1 /\ getDate(hDate) = 15
  /\ DaysAway(6) = 30 /\ DaysAway(7) = 31
  /\ NameText(hBirthdays[6]) \in Listed(hView.value)
  /\ NameText(hBirthdays[7]) \notin Listed(hView.value)

\* the entries of the roster that the upcoming section is about: after today
\* and within the horizon
FutureEntries == {i \in 1..Len(hBirthdays) : DaysAway(i) > 0 /\ DaysAway(i) <= Horizon}

\* entries i and j share daysUntil and displayDate
SameGroup(i, j) ==
  /\ DaysAway(i) = DaysAway(j)
  /\ formatBirthdayDate(hBirthdays[i].month, hBirthdays[i].day)
       = formatBirthdayDate(hBirthdays[j].month, hBirthdays[j].day)

\* the (line, position) places where entry i is listed
PlacesOf(i, lines) ==
  {p \in (1..Len(lines)) \X (1..Len(hBirthdays)) :
     /\ p[2] <= Len(lines[p[1]].data.names)
     /\ lines[p[1]].data.names[p[2]] = NameText(hBirthdays[i])}

\* entry i is listed in line k
InLine(i, lines, k) == NameText(hBirthdays[i]) \in ListedIn(lines[k])

OneLinePerGroup(lines) ==
  /\ \A i \in FutureEntries : Cardinality(PlacesOf(i, lines)) <= 1
  /\ \A i, j \in FutureEntries :
       \A k \in 1..Len(lines) :
         InLine(i, lines, k) => (InLine(j, lines, k) <=> SameGroup(i, j))
  /\ \A k \in 1..Len(lines) :
       /\ ListedIn(lines[k]) # {}
       /\ ListedIn(lines[k]) \subseteq {NameText(hBirthdays[i]) : i \in FutureEntries}
  /\ \A i, j \in FutureEntries :
       \A k, l \in 1..Len(lines) :
         (InLine(i, lines, k) /\ InLine(j, lines, l) /\ k < l)
           => DaysAway(i) <= DaysAway(j)

\* C25: in the upcoming section, future entries sharing the same (daysUntil,
\* displayDate) are rendered as exactly one line listing all of their names,
\* every rendered future entry appears in exactly one line, and lines appear
\* in ascending daysUntil order.
C25_OneLinePerGroup == hView.done => OneLinePerGroup(GroupLines(hView.value))

\* the pool on January 15, 2023, expanded: Ann and Cy share the January 20
\* line, and February 28 and February 29, both 44 days away, have a line each
C25_Witness ==
  /\ hView.done /\ hExpanded /\ hBirthdays = HomePool
  /\ getFullYear(hDate) = 2023 /\ getMonth(hDate) = 1 /\ getDate(hDate) = 15
  /\ Len(GroupLines(hView.value)) = 6
  /\ GroupLines(hView.value)[1].data.names = <<NameText(Cur(Ann, 1, 20)), NameText(Cur(Cy, 1, 20))>>
  /\ GroupLines(hView.value)[4].data.names = <<NameText(Cur(Bob, 2, 28))>>
  /\ GroupLines(hView.value)[5].data.names = <<NameText(Cur(Eve, 2, 29))>>
  /\ DaysAway(4) = 44 /\ DaysAway(5) = 44

\* the groups of the future entries: the (daysUntil, displayDate) pairs
FutureGroups ==
  {<<DaysAway(i), formatBirthdayDate(hBirthdays[i].month, hBirthdays[i].day)>> :
     i \in FutureEntries}

\* the cap on the groups shown: 10 compact, 20 expanded
GroupCap == IF hExpanded THEN 20 ELSE 10

MoreLines(view) == SelectSeq(view.blocks, LAMBDA b : b.text = "... and n more")

GroupsCapped(lines, more) ==
  /\ Len(lines) <= GroupCap
  /\ Len(more) = (IF Cardinality(FutureGroups) > GroupCap THEN 1 ELSE 0)
  /\ \A k \in 1..Len(more) : more[k].data.n = Cardinality(FutureGroups) - Len(lines)

\* C26: at most 10 groups (compact) or 20 groups (expanded) are rendered; a
\* single 'N more' summary line is rendered exactly when there are more
\* groups than the cap, and N is the number of groups that were not rendered.
C26_MoreCountsGroups ==
  hView.done => GroupsCapped(GroupLines(hView.value), MoreLines(hView.value))

NothingUpcomingShown(view) ==
  \E k \in 1..Len(view.blocks) : view.blocks[k].text = "No Upcoming Birthdays"

\* C27: generateHomeView returns the fixed welcome document if and only if
\* the roster is empty, and for a roster that is not empty it renders the
\* fixed 'nothing upcoming' section if and only if no entry falls today or
\* within the horizon.
C27_WelcomeAndNothingUpcoming ==
  hView.done =>
    /\ hView.value.blocks = WelcomeBlocks <=> Len(hBirthdays) = 0
    /\ Len(hBirthdays) > 0 =>
         (NothingUpcomingShown(hView.value)
            <=> \A i \in 1..Len(hBirthdays) : DaysAway(i) > Horizon)

\* Gus and Hal on January 15, 2024, compact: 31 and 91 days away, so the
\* view is not the welcome document and shows the 'nothing upcoming' section
C27_Witness ==
  /\ hView.done /\ ~hExpanded
  /\ hBirthdays = <<Cur(Gus, 2, 15), Cur(Hal, 4, 15)>>
  /\ getFullYear(hDate) = 2024 /\ getMonth(hDate) = 1 /\ getDate(hDate) = 15
  /\ DaysAway(1) = 31 /\ DaysAway(2) = 91
  /\ hView.value.blocks # WelcomeBlocks
  /\ NothingUpcomingShown(hView.value)

SchedEnded == sched.pc = "returned" \/ sched.pc = "raised"

\* the task ran at most maxRetries + 1 times; a return follows the first
\* attempt that succeeded; the error follows maxRetries + 1 failed attempts
RetriesBounded ==
  /\ sched.runs <= sched.task.config.maxRetries + 1
  /\ sched.pc = "returned" => sched.failed = sched.runs - 1
  /\ sched.pc = "raised" =>
       /\ sched.runs = sched.task.config.maxRetries + 1
       /\ sched.failed = sched.task.config.maxRetries + 1
  /\ sched.failed < sched.runs => sched.pc = "returned"

\* C28: the retry loop of a scheduled task is bounded:
\* withScheduledErrorHandling runs the task at most maxRetries + 1 times,
\* returns at the first successful attempt without further attempts, raises
\* a ScheduledTaskError after maxRetries + 1 failed attempts, and always
\* terminates.
C28_RetriesBoundedAndEnd ==
  /\ []RetriesBounded
  /\ [][SchedEnded => UNCHANGED sched]_vars
  /\ (sched.pc # "idle") ~> SchedEnded

\* the daily refresh raising its error after four failed attempts and three
\* waits
C28_Witness ==
  /\ sched.pc = "raised" /\ sched.task.taskName = "daily-cache-refresh"
  /\ sched.runs = 4 /\ sched.failed = 4 /\ Len(sched.waits) = 3

\* baseDelay * backoffFactor^k, capped at maxDelay
CappedBackoff(k, config) ==
  IF config.baseDelay * (config.backoffFactor ^ k) > config.maxDelay
  THEN config.maxDelay
  ELSE config.baseDelay * (config.backoffFactor ^ k)

BackoffWaits(waits, config) ==
  /\ \A k \in 1..Len(waits) : waits[k] = CappedBackoff(k - 1, config)
  /\ Len(waits) > 0 => waits[1] = config.baseDelay
  /\ \A k \in 1..(Len(waits) - 1) : waits[k] <= waits[k + 1]
  /\ \A k \in 1..Len(waits) : waits[k] <= config.maxDelay

\* C29: the wait before retry number k (k = 0, 1, ...) is
\* min(baseDelay * backoffFactor^k, maxDelay): waits start at baseDelay,
\* never decrease, never exceed maxDelay, and no wait follows the final
\* failed attempt.
C29_BackoffCapped ==
  /\ BackoffWaits(sched.waits, sched.task.config)
  /\ Len(sched.waits) <= sched.task.config.maxRetries
  /\ sched.pc = "wait" => sched.failed <= sched.task.config.maxRetries
  /\ sched.pc = "raised" => Len(sched.waits) = sched.failed - 1

\* four failed attempts under the capped configuration: the waits were 1000,
\* 2000 and the maxDelay of 3000, and none followed the fourth failure
C29_Witness ==
  /\ sched.pc = "raised" /\ sched.task.config = CappedConfig
  /\ sched.failed = 4
  /\ sched.waits = <<1000, 2000, 3000>>

\* C30: each scheduled task invocation has one overall wall-clock timeout:
\* counting all of its attempts and backoff waits, the invocation ends
\* (returns or raises its task-level error) within the task's configured
\* timeout.
C30_OverallTimeout == SchedEnded => sched.elapsed <= sched.task.timeoutMs

\* C31: handleScheduledEvent never rejects, whatever the cron expression and
\* however its task ends; an event whose cron is not routed, or whose task
\* exhausted its retries (thrown errors and timeouts alike), ends resolved
\* with the failure logged; every event that began ends resolved
EventFailed ==
  \/ ~Routed(event.cron)
  \/ sched.pc = "raised"
C31_FailureLoggedNotRaised ==
  /\ [](event.pc # "rejected")
  /\ []((event.pc = "resolved") => (event.failed = EventFailed))
  /\ (event.pc = "task") ~> (event.pc = "resolved")
C31_Witness ==
  /\ event.pc = "resolved"
  /\ event.cron = DailyCron
  /\ event.failed
  /\ sched.pc = "raised"
  /\ sched.runs = 4
  /\ sched.elapsed >= 4 * 600000

\* C32: the roster a home-tab read returns while admin writes and write-backs
\* run is the current-format form of the one value the roster key held at the
\* kv.get of the read, which each write put whole: the roster before the write
\* or a roster after it, never entries of both; the write-back of the read
\* returns that same roster
ReadForm(slot) ==
  IF slot.present THEN migrateToLatestFormat(slot.value).migratedData ELSE NoRoster
GetReturns == client.pc = "read" /\ client'.pc \in {"writeback", "store"}
WriteBackReturns == client.pc = "writeback" /\ client'.pc = "store"
C32_WitnessBefore ==
  /\ admin.pc = "clear1"
  /\ client.pc = "store"
  /\ client.readOk
  /\ client.data # admin.data
  /\ Len(client.data.birthdays) > 0

\* C33: once storeBirthdayData(R) has returned successfully and nothing has
\* written the roster key since, a getBirthdayData whose kv.get succeeds
\* returns the validated form of R, for every R the write path accepts, the
\* empty roster included
LastStored == CHOOSE d \in postWrite : TRUE
ReadAfterWrite ==
  /\ writeDone
  /\ admin.pc \in {"idle", "clear2", "done"}
  /\ Cardinality(postWrite) = 1
  /\ kvRoster = Stored(Stringify(LastStored))
  /\ client.pc = "read"
  /\ client'.pc # "read"
  /\ faults' = faults
C33_WriteThenReadRoundTrip ==
  [][ReadAfterWrite => (client'.pc = "store" /\ client'.data = LastStored)]_vars
\* the round trip of the rosters that have an entry
C33_NonEmptyRoundTrip ==
  [][(ReadAfterWrite /\ LastStored.birthdays # <<>>)
       => (client'.pc = "store" /\ client'.data = LastStored)]_vars
\* the read after the write of the empty roster fails
C33_EmptyReadFails ==
  /\ writeDone
  /\ kvRoster = Stored(Stringify(NoRoster))
  /\ client.pc = "catch"
  /\ client.err # <<>>
  /\ client.err[1] = "Data migration failed"
  /\ faults = 0

\* C34: when storeBirthdayData has reported failure (validation, the limit,
\* the put of the roster or the clearCachedHomeView after it), the roster key
\* holds what it held when the admin update began, and not the roster of the
\* failed call
StoreFailed ==
  /\ admin.pc = "done"
  /\ admin.out \in {"error", "limit_error"}
  /\ ~writeDone
C34_WriteAllOrNothing ==
  (StoreFailed /\ kvRoster \in {admin.before, Stored(Stringify(admin.data))})
    => kvRoster = admin.before
\* a storeBirthdayData that failed before or at its put leaves the key alone
C34_FailedPutLeavesKey ==
  [][(admin.pc \in {"idle", "put"} /\ admin'.pc = "done") => kvRoster' = kvRoster]_vars
\* the clearCachedHomeView of storeBirthdayData threw after the put
C34_ClearFailedAfterPut ==
  /\ StoreFailed
  /\ admin.before = NoData
  /\ kvRoster = Stored(Stringify(admin.data))
  /\ admin.data.birthdays = <<Jan20>>

\* C35: a call of refreshAllCaches whose attempt has ended by timeout takes no
\* further step against the store, so that at most one call of an invocation
\* has storage operations pending
TimedOut(i) == i <= sched.runs /\ ~RefreshDone(refresh[i])
Pending == {i \in DOMAIN refresh : ~RefreshDone(refresh[i])}
C35_TimedOutAttemptStops ==
  [][/\ \A i \in DOMAIN refresh : TimedOut(i) => refresh'[i] = refresh[i]
     /\ Cardinality(Pending) <= 1]_vars
\* the call of the second attempt warmed the cache and returned success;
\* the call of the first, timed out, then cleared the cache slot
C35_StaleCallClears ==
  /\ Len(refresh) = 2
  /\ sched.pc = "returned"
  /\ RefreshSucceeded(refresh[2])
  /\ refresh[2].warmed > 0
  /\ refresh[1].pc = "list"
  /\ kvCache = EmptySlot
\* with no timeout, one call at a time is pending
C35_OneCallWithoutTimeout ==
  (\A i \in DOMAIN refresh : ~TimedOut(i)) => Cardinality(Pending) <= 1

\* C38: when a call of refreshAllCaches returns success = true, the cache
\* slot is Warm and holds the view generateHomeView renders from the roster
\* stored at that time, whatever the number of installations, zero included
Returns(i) == ~RefreshDone(refresh[i]) /\ RefreshSucceeded(refresh'[i])
WarmWithStoredRoster(slot, roster, t) ==
  /\ slot.present
  /\ t <= slot.expiresAt
  /\ slot.data = generateHomeView(ReadForm(roster).birthdays, FALSE, t)
C38_SuccessMeansWarm ==
  [][\A i \in DOMAIN refresh :
       Returns(i) => WarmWithStoredRoster(kvCache', kvRoster', now')]_vars
\* the same with an installation to warm and no call that timed out
C38_SuccessMeansWarmWithTeams ==
  [][\A i \in DOMAIN refresh :
       (Returns(i) /\ refresh[i].warmed + Len(refresh[i].queue) > 0
                   /\ \A j \in DOMAIN refresh : ~TimedOut(j))
         => WarmWithStoredRoster(kvCache', kvRoster', now')]_vars
\* success = true with no installation: the slot was cleared and not filled
C38_SuccessAndEmpty ==
  /\ kvInstallations = {}
  /\ Len(refresh) = 1
  /\ RefreshSucceeded(refresh[1])
  /\ refresh[1].warmed = 0
  /\ faults = 0
  /\ kvCache = EmptySlot

\* C36: in every behaviour that starts with no roster stored, whatever admin
\* updates and home-tab reads (write-back included) follow, the roster key is
\* absent or holds a roster of at most MAX_BIRTHDAYS entries that
\* validateBirthdayData accepts and returns unchanged: valid dates, names
\* unique ignoring case
AcceptedUnchanged(p) ==
  /\ validateBirthdayData(p).ok
  /\ Stringify(validateBirthdayData(p).data) = p
  /\ Len(p.birthdays) <= MAX_BIRTHDAYS
StoredRosterValid == kvRoster.present => AcceptedUnchanged(kvRoster.value)
C36_StoredRosterValid == (kvRoster = NoData) => []StoredRosterValid
\* an admin update on the empty store has put its roster
C36_Witness ==
  /\ admin.before = NoData
  /\ admin.out = "ok"
  /\ kvRoster = Stored(Stringify(admin.data))
  /\ Len(kvRoster.value.birthdays) > 0

\* C37: whatever the cache slot holds was put there by handleAppHomeOpened,
\* handleRefreshHomeView or the warm-up, and is the compact view they
\* rendered from the roster their read returned; the views of the expanded
\* and compact toggles and the error views are published and never cached
ClientCaches(slot) ==
  /\ client.pc = "store"
  /\ client.kind \in RequestKinds
  /\ client.readOk
  /\ slot.data = generateHomeView(client.data.birthdays, FALSE, now)
WarmCaches(slot) ==
  /\ warm.pc = "store"
  /\ warm.readOk
  /\ slot.data = generateHomeView(warm.data.birthdays, FALSE, now)
CompactNotError(slot) ==
  slot.present => (slot.data.kind \in {"home", "welcome"} /\ ~slot.data.expanded)
C37_OnlyCompactViewsCached ==
  /\ [][(kvCache' # kvCache /\ kvCache'.present)
          => (ClientCaches(kvCache') \/ WarmCaches(kvCache'))]_vars
  /\ []CompactNotError(kvCache)
\* the expanded view was published while the slot holds a compact one
C37_Witness ==
  /\ client.kind = "expanded"
  /\ client.pc = "done"
  /\ client.pub.kind = "home"
  /\ client.pub.expanded
  /\ kvCache.present
  /\ kvCache.data.kind = "home"
\* the compact toggle and a failed toggle published without caching
C37_WitnessCompact ==
  /\ client.kind = "compact"
  /\ client.pc = "done"
  /\ client.pub.kind = "home"
  /\ ~kvCache.present
C37_WitnessError ==
  /\ client.kind \in ToggleKinds
  /\ client.pc = "done"
  /\ client.pub.kind = "error"

\* C39: the view getCachedHomeView hands to handleAppHomeOpened is the view
\* generateHomeView renders from the stored roster at the time of the read:
\* its today section and its days-until labels are those of the calendar day
\* of the read, also when the entry was cached before midnight
CacheHit == client.pc = "cache" /\ client'.fromCache
C39_CachedViewIsOfToday ==
  [][CacheHit => client'.view = generateHomeView(ReadForm(kvRoster).birthdays,
                                                 FALSE, now)]_vars
\* a cached view read on the day it was rendered is the view of that day
C39_CachedViewSameDay ==
  [][(CacheHit /\ kvCache.data.day = now \div MILLISECONDS_PER_DAY)
       => client'.view = generateHomeView(ReadForm(kvRoster).birthdays,
                                          FALSE, now)]_vars
\* the view served was rendered the day before: a birthday of today is not in
\* its today section, and a days-until label is one day too long
ServedFromCache == client.fromCache /\ client.pc = "publish" /\ kvCache.present
RenderedOn(view) == DateAt(view.day * MILLISECONDS_PER_DAY)
C39_TodayMissing ==
  /\ ServedFromCache
  /\ now < kvCache.expiresAt
  /\ getTodaysBirthdays(client.view.birthdays, RenderedOn(client.view)) = <<>>
  /\ getTodaysBirthdays(client.view.birthdays, DateAt(now)) # <<>>
C39_LabelStale ==
  /\ ServedFromCache
  /\ now < kvCache.expiresAt
  /\ \E i \in DOMAIN client.view.birthdays :
       getDaysUntilBirthday(client.view.birthdays[i].month,
                            client.view.birthdays[i].day, RenderedOn(client.view))
       = 1 + getDaysUntilBirthday(client.view.birthdays[i].month,
                                  client.view.birthdays[i].day, DateAt(now))

\* C40: No installation record is lost: when storeInstallation calls for
\* different teams run concurrently and no KV operation fails, no put removes
\* a record of the installations map, and every team whose call has stored is
\* in the map.
C40_NoInstallationLost ==
  /\ [][faults' = 0 => kvInstallations \subseteq kvInstallations']_vars
  /\ [](faults = 0 =>
          \A t \in Teams : install[t].pc = "stored" => t \in kvInstallations)

\* C40: two calls for different teams have both stored without a failure and
\* the map holds only one of the two records
C40_LostUpdate ==
  /\ faults = 0
  /\ \A t \in Teams : install[t].pc = "stored"
  /\ ~(Teams \subseteq kvInstallations)

\* C40: a put whose read saw the map as it is now (no other call stored in
\* between) and did not fail keeps every record and adds the team's
C40_PutAfterFreshReadKeeps ==
  [][\A t \in Teams :
       (/\ install[t].pc = "put"
        /\ install'[t].pc = "stored"
        /\ install[t].installations = kvInstallations)
       => kvInstallations' = kvInstallations \cup {t}]_vars

====
